---- MODULE Spec2Model ----
(***************************************************************************)
(* Verification model of the RV64IM emulator: the five-stage pipelined     *)
(* core (multi_stage/cpu.rs and its stage functions) and the single-cycle  *)
(* core (single_cycle/cpu.rs), run on the same program image.              *)
(*                                                                         *)
(* 64-bit values are kept at their full width.  A u64 is a tuple of four   *)
(* 16-bit limbs, least significant first; a 32-bit instruction word is a   *)
(* tuple of two 16-bit halves <<low, high>>.                               *)
(***************************************************************************)
EXTENDS Integers, Sequences, FiniteSets, TLC

(***************************************************************************)
(* Bounds of the model.                                                    *)
(***************************************************************************)
\* number of loop iterations of cpu_exec explored before the run is cut off
MaxIter == 120

(***************************************************************************)
(* 64-bit words.                                                           *)
(***************************************************************************)
Limb == 2 ^ 16

\* the u64 with the value n, for 0 <= n < 2^31
U(n) == <<n % Limb, (n \div Limb) % Limb, 0, 0>>

Zero64 == <<0, 0, 0, 0>>

One64 == <<1, 0, 0, 0>>

\* bit i (0 = least significant) of a u64
Bit(a, i) == (a[(i \div 16) + 1] \div (2 ^ (i % 16))) % 2

LimbOfBits(f, k) ==
    LET b(j) == f[16 * k + j] * (2 ^ (j))
    IN  b(0) + b(1) + b(2) + b(3) + b(4) + b(5) + b(6) + b(7)
        + b(8) + b(9) + b(10) + b(11) + b(12) + b(13) + b(14) + b(15)

\* the u64 whose bit i is f[i], for f a function on 0..63
FromBits(f) == <<LimbOfBits(f, 0), LimbOfBits(f, 1), LimbOfBits(f, 2), LimbOfBits(f, 3)>>

\* u64::wrapping_add
wrapping_add(a, b) ==
    LET s1 == a[1] + b[1]
        s2 == a[2] + b[2] + (s1 \div Limb)
        s3 == a[3] + b[3] + (s2 \div Limb)
        s4 == a[4] + b[4] + (s3 \div Limb)
    IN  <<s1 % Limb, s2 % Limb, s3 % Limb, s4 % Limb>>

\* bitwise complement of a u64 (Rust's ! on u64 / i64)
bitnot(a) == <<Limb - 1 - a[1], Limb - 1 - a[2], Limb - 1 - a[3], Limb - 1 - a[4]>>

\* u64::wrapping_sub
wrapping_sub(a, b) == wrapping_add(a, wrapping_add(bitnot(b), One64))

bitand(a, b) == FromBits([i \in 0..63 |-> Bit(a, i) * Bit(b, i)])

bitor(a, b) == FromBits([i \in 0..63 |-> IF Bit(a, i) + Bit(b, i) > 0 THEN 1 ELSE 0])

bitxor(a, b) == FromBits([i \in 0..63 |-> (Bit(a, i) + Bit(b, i)) % 2])

\* u64::wrapping_shl: the shift amount is taken modulo 64
wrapping_shl(a, n) ==
    LET s == n % 64
    IN  FromBits([i \in 0..63 |-> IF i >= s THEN Bit(a, i - s) ELSE 0])

\* a right shift that fills with the sign bit where u64::wrapping_shr fills
\* with zeros
wrapping_shr_sign_filled(a, n) ==
    LET s == n % 64
    IN  FromBits([i \in 0..63 |-> IF i + s <= 63 THEN Bit(a, i + s) ELSE Bit(a, 63)])

\* u64::wrapping_shr (logical)
wrapping_shr(a, n) ==
    LET s == n % 64
    IN  FromBits([i \in 0..63 |-> IF i + s <= 63 THEN Bit(a, i + s) ELSE 0])

\* i64::wrapping_shr (arithmetic)
wrapping_shr_i64(a, n) ==
    LET s == n % 64
    IN  FromBits([i \in 0..63 |-> IF i + s <= 63 THEN Bit(a, i + s) ELSE Bit(a, 63)])

\* a < b as u64
LtU(a, b) ==
    \/ a[4] < b[4]
    \/ a[4] = b[4] /\ a[3] < b[3]
    \/ a[4] = b[4] /\ a[3] = b[3] /\ a[2] < b[2]
    \/ a[4] = b[4] /\ a[3] = b[3] /\ a[2] = b[2] /\ a[1] < b[1]

\* a < b as i64 (two's complement)
LtS(a, b) ==
    IF Bit(a, 63) # Bit(b, 63) THEN Bit(a, 63) = 1 ELSE LtU(a, b)

\* the value of a u64 as a natural number, defined for values below 2^31
ToNat(a) == a[1] + Limb * a[2]

(***************************************************************************)
(* core/insts.rs: sign extension, truncation, instruction fields.          *)
(***************************************************************************)
BYTE_BITWIDTH == 8
HALF_BITWIDTH == 16
WORD_BITWIDTH == 32
I_TYPE_IMM_BITWIDTH == 12
S_TYPE_IMM_BITWIDTH == 12
B_TYPE_IMM_BITWIDTH == 13
U_TYPE_IMM_BITWIDTH == 20
J_TYPE_IMM_BITWIDTH == 21

\* sext(imm, bit_width), computed by the steps of the source
sext(imm, bit_width) ==
    LET sign_bit_mask == wrapping_shl(One64, bit_width - 1)
        mask == wrapping_sub(wrapping_shl(One64, bit_width), One64)
        sign_bit == bitand(imm, sign_bit_mask)
        extended_bits == bitnot(wrapping_sub(wrapping_shl(sign_bit, 1), One64))
    IN  bitor(bitand(imm, mask), extended_bits)

trunc_to_32_bit(x) == <<x[1], x[2], 0, 0>>

trunc_to_16_bit(x) == <<x[1], 0, 0, 0>>

trunc_to_8_bit(x) == <<x[1] % 256, 0, 0, 0>>

trunc_to_6_bit(x) == <<x[1] % 64, 0, 0, 0>>

trunc_to_5_bit(x) == <<x[1] % 32, 0, 0, 0>>

\* <<x & 0x1F, (x & 0x20) == 0>>
trunc_to_5_bit_and_check(x) == <<trunc_to_5_bit(x), (x[1] \div 32) % 2 = 0>>

\* fields of an instruction word inst = <<low half, high half>>
opcode(inst) == inst[1] % 128

rd(inst) == (inst[1] \div 128) % 32

funct3(inst) == (inst[1] \div 4096) % 8

rs1(inst) == (inst[1] \div 32768) + 2 * (inst[2] % 16)

rs2(inst) == (inst[2] \div 16) % 32

funct7(inst) == inst[2] \div 512

funct6(inst) == inst[2] \div 1024

shift64_I(inst) == U((inst[2] \div 16) % 64)

imm_I(inst) == U(inst[2] \div 16)

imm_S(inst) == U(funct7(inst) * 32 + rd(inst))

imm_SB(inst) ==
    LET imm_12_10_5 == funct7(inst)
        imm_4_1_11 == rd(inst)
        imm_4_1 == imm_4_1_11 - (imm_4_1_11 % 2)
        bit_11 == (imm_4_1_11 % 2) * 2048
        bit_12 == (imm_12_10_5 \div 64) * 4096
        imm_10_5 == (imm_12_10_5 % 64) * 32
    IN  U(bit_12 + bit_11 + imm_10_5 + imm_4_1)

imm_U(inst) == U((inst[1] \div 4096) + 16 * inst[2])

imm_UJ(inst) ==
    LET bit_20 == (inst[2] \div 32768) * 1048576
        imm_19_12 == ((inst[1] \div 4096) + 16 * (inst[2] % 16)) * 4096
        bit_11 == ((inst[2] \div 16) % 2) * 2048
        imm_10_1 == ((inst[2] \div 32) % 1024) * 2
    IN  U(bit_20 + imm_19_12 + bit_11 + imm_10_1)

\* inst_64_opcode
LOAD == 3
OP_IMM == 19
AUIPC == 23
OP_IMM_32 == 27
STORE == 35
STORE_FP == 39
OP == 51
LUI == 55
OP_32 == 59
BRANCH == 99
JALR == 103
JAL == 111
SYSTEM == 115

\* the canonical return  jalr zero,0(ra)  = 0x00008067
RET_INST == <<32871, 0>>

(***************************************************************************)
(* Results: Ok(v), Err(e), or a panic of the process.                      *)
(***************************************************************************)
Ok(v) == [kind |-> "ok", val |-> v]

Err(e) == [kind |-> "err", err |-> e]

Panic(m) == [kind |-> "panic", err |-> m]

(***************************************************************************)
(* multi_stage/phases.rs: the four pipeline latches and their defaults.    *)
(***************************************************************************)
NOOP_INST == <<0, 0>>

BranchFlagsDefault ==
    [branch |-> FALSE, pc_src |-> FALSE, predicted_src |-> FALSE, predicted_target |-> Zero64]

InternalFetchDecode_default ==
    [raw_inst |-> NOOP_INST,
     decode_flags |-> [sext |-> "None"],
     exec_flags |-> [alu_op |-> "noop", alu_src |-> FALSE],
     mem_flags |-> [mem_read |-> FALSE, mem_write |-> FALSE],
     wb_flags |-> [mem_to_reg |-> FALSE],
     branch_flags |-> BranchFlagsDefault,
     pc |-> Zero64, rs1 |-> 0, rs2 |-> 0, rs3 |-> 0, rd |-> 0, imm |-> Zero64]

InternalDecodeExec_default ==
    [raw_inst |-> NOOP_INST,
     exec_flags |-> [alu_op |-> "noop", alu_src |-> FALSE],
     mem_flags |-> [mem_read |-> FALSE, mem_write |-> FALSE],
     wb_flags |-> [mem_to_reg |-> FALSE],
     branch_flags |-> BranchFlagsDefault,
     pc |-> Zero64, rs1 |-> 0, rs2 |-> 0, rs3 |-> 0, rd |-> 0,
     src1 |-> Zero64, src2 |-> Zero64, imm |-> Zero64,
     forward_a |-> 0, forward_b |-> 0,
     ex_mem_forward |-> Zero64, mem_wb_forward |-> Zero64]

InternalExecMem_default ==
    [raw_inst |-> NOOP_INST,
     mem_flags |-> [mem_read |-> FALSE, mem_write |-> FALSE],
     wb_flags |-> [mem_to_reg |-> FALSE],
     branch_flags |-> BranchFlagsDefault,
     pc |-> Zero64, rs1 |-> 0, rs2 |-> 0, rs3 |-> 0, rd |-> 0, imm |-> Zero64,
     alu_out |-> Zero64, mem_addr |-> Zero64, mem_bitwidth |-> 0, mem_sext_to |-> 0,
     m2m_forward |-> FALSE, m2m_forward_val |-> Zero64, alu_op |-> "noop"]

InternalMemWb_default ==
    [raw_inst |-> NOOP_INST,
     wb_flags |-> [mem_to_reg |-> FALSE],
     branch_flags |-> BranchFlagsDefault,
     mem_read |-> FALSE,
     pc |-> Zero64, rs1 |-> 0, rs2 |-> 0, rs3 |-> 0, rd |-> 0, imm |-> Zero64,
     regval |-> Zero64, alu_op |-> "noop"]

\* InternalExecMem::is_ret
is_ret(itl) == itl.raw_inst = RET_INST

(***************************************************************************)
(* multi_stage/fetch.rs: pre-decoding of the fetched word.                 *)
(***************************************************************************)
\* the InternalFetchDecode literal the decode_* functions build (pc is 0 there)
FD(inst, sx, alu_op, alu_src, mem_read, mem_write, mem_to_reg, branch, pc_src, r1, r2, d, imm) ==
    [raw_inst |-> inst,
     decode_flags |-> [sext |-> sx],
     exec_flags |-> [alu_op |-> alu_op, alu_src |-> alu_src],
     mem_flags |-> [mem_read |-> mem_read, mem_write |-> mem_write],
     wb_flags |-> [mem_to_reg |-> mem_to_reg],
     branch_flags |-> [branch |-> branch, pc_src |-> pc_src,
                       predicted_src |-> FALSE, predicted_target |-> Zero64],
     pc |-> Zero64, rs1 |-> r1, rs2 |-> r2, rs3 |-> 0, rd |-> d, imm |-> imm]

decode_load(inst) ==
    LET f3 == funct3(inst)
        alu_op == CASE f3 = 0 -> "lb" [] f3 = 1 -> "lh" [] f3 = 2 -> "lw" [] f3 = 3 -> "ld"
                    [] f3 = 4 -> "lbu" [] f3 = 5 -> "lhu" [] f3 = 6 -> "lwu" [] OTHER -> "?"
    IN  IF alu_op = "?" THEN Err("Decode")
        ELSE Ok(FD(inst, "I", alu_op, TRUE, TRUE, FALSE, TRUE, FALSE, FALSE,
                   rs1(inst), 0, rd(inst), imm_I(inst)))

decode_op_imm(inst) ==
    LET f3 == funct3(inst)
        f6 == funct6(inst)
        alu_op == CASE f3 = 0 -> "addi" [] f3 = 2 -> "slti" [] f3 = 3 -> "sltiu"
                    [] f3 = 4 -> "xori" [] f3 = 6 -> "ori" [] f3 = 7 -> "andi"
                    [] f3 = 1 -> "slli"
                    [] f3 = 5 -> (CASE f6 = 0 -> "srli" [] f6 = 16 -> "srai" [] OTHER -> "?")
                    [] OTHER -> "?"
        imm == IF f3 \in {1, 5} THEN shift64_I(inst) ELSE imm_I(inst)
    IN  IF alu_op = "?" THEN Err("Decode")
        ELSE Ok(FD(inst, "I", alu_op, TRUE, FALSE, FALSE, TRUE, FALSE, FALSE,
                   rs1(inst), 0, rd(inst), imm))

decode_op_auipc(inst) ==
    Ok(FD(inst, "U", "auipc", FALSE, FALSE, FALSE, TRUE, FALSE, FALSE, 0, 0, rd(inst), imm_U(inst)))

decode_op_imm_32(inst) ==
    LET f3 == funct3(inst)
        f7 == funct7(inst)
        alu_op == CASE f3 = 0 -> "addiw" [] f3 = 1 -> "slliw"
                    [] f3 = 5 -> (CASE f7 = 0 -> "srliw" [] f7 = 32 -> "sraiw" [] OTHER -> "?")
                    [] OTHER -> "?"
        imm == IF f3 = 0 THEN imm_I(inst) ELSE U(rs2(inst))
    IN  IF alu_op = "?" THEN Err("Decode")
        ELSE Ok(FD(inst, "I", alu_op, TRUE, FALSE, FALSE, TRUE, FALSE, FALSE,
                   rs1(inst), 0, rd(inst), imm))

decode_store(inst) ==
    LET f3 == funct3(inst)
        alu_op == CASE f3 = 0 -> "sb" [] f3 = 1 -> "sh" [] f3 = 2 -> "sw" [] f3 = 3 -> "sd"
                    [] OTHER -> "?"
    IN  IF alu_op = "?" THEN Err("Decode")
        ELSE Ok(FD(inst, "S", alu_op, TRUE, FALSE, TRUE, FALSE, FALSE, FALSE,
                   rs1(inst), rs2(inst), 0, imm_S(inst)))

decode_op(inst) ==
    LET f3 == funct3(inst)
        f7 == funct7(inst)
        alu_op ==
            CASE f3 = 0 -> (CASE f7 = 0 -> "add" [] f7 = 32 -> "sub" [] f7 = 1 -> "mul" [] OTHER -> "?")
              [] f3 = 1 -> (CASE f7 = 0 -> "sll" [] f7 = 1 -> "mulh" [] OTHER -> "?")
              [] f3 = 2 -> (CASE f7 = 0 -> "slt" [] f7 = 1 -> "mulhsu" [] OTHER -> "?")
              [] f3 = 3 -> (CASE f7 = 0 -> "sltu" [] f7 = 1 -> "mulhu" [] OTHER -> "?")
              [] f3 = 4 -> (CASE f7 = 0 -> "xor" [] f7 = 1 -> "div" [] OTHER -> "?")
              [] f3 = 5 -> (CASE f7 = 0 -> "srl" [] f7 = 32 -> "sra" [] f7 = 1 -> "divu" [] OTHER -> "?")
              [] f3 = 6 -> (CASE f7 = 0 -> "or" [] f7 = 1 -> "rem" [] OTHER -> "?")
              [] f3 = 7 -> (CASE f7 = 0 -> "and" [] f7 = 1 -> "remu" [] OTHER -> "?")
              [] OTHER -> "?"
    IN  IF alu_op = "?" THEN Err("Decode")
        ELSE Ok(FD(inst, "None", alu_op, FALSE, FALSE, FALSE, TRUE, FALSE, FALSE,
                   rs1(inst), rs2(inst), rd(inst), Zero64))

decode_lui(inst) ==
    Ok(FD(inst, "U", "lui", TRUE, FALSE, FALSE, TRUE, FALSE, FALSE, 0, 0, rd(inst), imm_U(inst)))

decode_op_32(inst) ==
    LET f3 == funct3(inst)
        f7 == funct7(inst)
        alu_op ==
            CASE f3 = 0 -> (CASE f7 = 0 -> "addw" [] f7 = 32 -> "subw" [] f7 = 1 -> "mulw" [] OTHER -> "?")
              [] f3 = 1 -> "sllw"
              [] f3 = 4 -> (CASE f7 = 1 -> "divw" [] OTHER -> "?")
              [] f3 = 5 -> (CASE f7 = 0 -> "srlw" [] f7 = 32 -> "sraw" [] f7 = 1 -> "divuw" [] OTHER -> "?")
              [] f3 = 6 -> (CASE f7 = 1 -> "remw" [] OTHER -> "?")
              [] f3 = 7 -> (CASE f7 = 1 -> "remuw" [] OTHER -> "?")
              [] OTHER -> "?"
    IN  IF alu_op = "?" THEN Err("Decode")
        ELSE Ok(FD(inst, "None", alu_op, FALSE, FALSE, FALSE, TRUE, FALSE, FALSE,
                   rs1(inst), rs2(inst), rd(inst), Zero64))

decode_branch(inst) ==
    LET f3 == funct3(inst)
        alu_op == CASE f3 = 0 -> "beq" [] f3 = 1 -> "bne" [] f3 = 4 -> "blt" [] f3 = 5 -> "bge"
                    [] f3 = 6 -> "bltu" [] f3 = 7 -> "bgeu" [] OTHER -> "?"
    IN  IF alu_op = "?" THEN Err("Decode")
        ELSE Ok(FD(inst, "B", alu_op, FALSE, FALSE, FALSE, FALSE, TRUE, FALSE,
                   rs1(inst), rs2(inst), 0, imm_SB(inst)))

decode_jalr(inst) ==
    IF funct3(inst) # 0 THEN Err("Decode")
    ELSE Ok(FD(inst, "I", "jalr", TRUE, FALSE, FALSE, TRUE, TRUE, TRUE,
               rs1(inst), 0, rd(inst), imm_I(inst)))

decode_jal(inst) ==
    Ok(FD(inst, "J", "jal", TRUE, FALSE, FALSE, TRUE, TRUE, TRUE, 0, 0, rd(inst), imm_UJ(inst)))

decode_system(inst) ==
    LET f3 == funct3(inst)
        csr == ToNat(imm_I(inst))
        alu_op == CASE f3 = 0 -> (CASE csr = 0 -> "ecall" [] csr = 1 -> "ebreak" [] OTHER -> "?")
                    [] f3 = 1 -> "csrrw" [] f3 = 2 -> "csrrs" [] f3 = 3 -> "csrrc"
                    [] f3 = 5 -> "csrrwi" [] f3 = 6 -> "csrrsi" [] f3 = 7 -> "csrrci"
                    [] OTHER -> "?"
    IN  IF alu_op = "?" THEN Err("Decode")
        ELSE Ok(FD(inst, "None", alu_op, FALSE, FALSE, FALSE, FALSE, FALSE, FALSE,
                   rs1(inst), 0, rd(inst), Zero64))

\* inst_interpret(pc, inst): route on the opcode, then stamp the PC
inst_interpret(pc, inst) ==
    LET op == opcode(inst)
        at_pc(r) == IF r.kind = "ok" THEN Ok([r.val EXCEPT !.pc = pc]) ELSE r
    IN  at_pc(CASE op = LOAD -> decode_load(inst)
               [] op = OP_IMM -> decode_op_imm(inst)
               [] op = AUIPC -> decode_op_auipc(inst)
               [] op = OP_IMM_32 -> decode_op_imm_32(inst)
               [] op = STORE -> decode_store(inst)
               [] op = STORE_FP -> Panic("todo")
               [] op = OP -> decode_op(inst)
               [] op = LUI -> decode_lui(inst)
               [] op = OP_32 -> decode_op_32(inst)
               [] op = BRANCH -> decode_branch(inst)
               [] op = JALR -> decode_jalr(inst)
               [] op = JAL -> decode_jal(inst)
               [] op = SYSTEM -> decode_system(inst)
               [] OTHER -> Err("Fetch"))  \* the "todo" opcodes and the fall-through arm

(***************************************************************************)
(* core/vm.rs: the flat memory.  vm = [ld_start, mm], mm a byte array.     *)
(* Typed reads and writes go through a raw host pointer at vaddr-ld_start; *)
(* InRange says that the access stays inside the buffer.                   *)
(***************************************************************************)
\* number of bytes of the memory buffer
MemSize == 96

\* vaddr where the image starts (the ELF's min_vaddr, also its entry point here)
LdStart == U(256)

InRange(vm, vaddr, bits) ==
    LET pos == wrapping_sub(vaddr, vm.ld_start)
    IN  pos[3] = 0 /\ pos[4] = 0 /\ pos[2] < 32768 /\ ToNat(pos) + (bits \div 8) <= MemSize

\* byte j (0..7) of a u64
ByteOf(v, j) == (v[(j \div 2) + 1] \div (IF j % 2 = 0 THEN 1 ELSE 256)) % 256

\* _mread::<T>(vaddr) for T of the given width: little-endian host read
mread(vm, vaddr, bits) ==
    LET pos == ToNat(wrapping_sub(vaddr, vm.ld_start))
        b(j) == IF 8 * j < bits THEN vm.mm[pos + j] ELSE 0
    IN  <<b(0) + 256 * b(1), b(2) + 256 * b(3), b(4) + 256 * b(5), b(6) + 256 * b(7)>>

\* _mwrite::<T>(vaddr, value as T): little-endian host write of the low bits
mwrite(vm, vaddr, bits, value) ==
    LET pos == ToNat(wrapping_sub(vaddr, vm.ld_start))
    IN  [vm EXCEPT !.mm = [a \in 0..(MemSize - 1) |->
            IF a >= pos /\ a < pos + (bits \div 8) THEN ByteOf(value, a - pos) ELSE @[a]]]

\* fetch_inst::<u32>(pc): the instruction word at pc as <<low half, high half>>
fetch_inst(vm, pc) ==
    LET w == mread(vm, pc, 32)
    IN  <<w[1], w[2]>>

\* fetch_inst_pipeline(pc): the word at pc, or a fetch error outside the image
fetch_inst_pipeline(vm, pc) ==
    IF InRange(vm, pc, 32) THEN Ok(fetch_inst(vm, pc)) ELSE Err("Fetch")

\* from_elf_info(info): a buffer that starts at the lowest vaddr of the image,
\* with the code segment and the data segment copied in and the rest zero
from_elf_info(info) ==
    LET data_off == ToNat(wrapping_sub(info.data_vaddr, LdStart))
    IN  [ld_start |-> LdStart,
         mm |-> [a \in 0..(MemSize - 1) |->
            IF a < 4 * Len(info.code)
            THEN LET w == info.code[(a \div 4) + 1]
                     h == w[((a % 4) \div 2) + 1]
                 IN  IF a % 2 = 0 THEN h % 256 ELSE h \div 256
            ELSE IF a >= data_off /\ a - data_off < Len(info.data)
            THEN info.data[a - data_off + 1]
            ELSE 0]]

(***************************************************************************)
(* core/reg.rs: the register file, a function 0..31 -> u64.                *)
(***************************************************************************)
RegisterFile_empty == [r \in 0..31 |-> Zero64]

reg_read(reg_file, reg_index) == reg_file[reg_index]

\* a register file whose x0 ignores writes
reg_write_x0_hardwired(reg_file, reg_index, value) ==
    IF reg_index = 0 THEN reg_file ELSE [reg_file EXCEPT ![reg_index] = value]

reg_write(reg_file, reg_index, value) == [reg_file EXCEPT ![reg_index] = value]

(***************************************************************************)
(* multi_stage/decode.rs                                                   *)
(***************************************************************************)
decode(reg_file, itl_f_d) ==
    LET src1 == reg_read(reg_file, itl_f_d.rs1)
        src2 == reg_read(reg_file, itl_f_d.rs2)
        sx == itl_f_d.decode_flags.sext
        imm == CASE sx = "None" -> itl_f_d.imm
                 [] sx = "I" -> sext(itl_f_d.imm, I_TYPE_IMM_BITWIDTH)
                 [] sx = "S" -> sext(itl_f_d.imm, S_TYPE_IMM_BITWIDTH)
                 [] sx = "B" -> sext(itl_f_d.imm, B_TYPE_IMM_BITWIDTH)
                 [] sx = "J" -> sext(itl_f_d.imm, J_TYPE_IMM_BITWIDTH)
                 [] sx = "U" -> sext(itl_f_d.imm, U_TYPE_IMM_BITWIDTH)
    IN  [raw_inst |-> itl_f_d.raw_inst,
         exec_flags |-> itl_f_d.exec_flags,
         mem_flags |-> itl_f_d.mem_flags,
         wb_flags |-> itl_f_d.wb_flags,
         branch_flags |-> itl_f_d.branch_flags,
         pc |-> itl_f_d.pc,
         rs1 |-> itl_f_d.rs1, rs2 |-> itl_f_d.rs2, rs3 |-> itl_f_d.rs3, rd |-> itl_f_d.rd,
         src1 |-> src1, src2 |-> src2, imm |-> imm,
         forward_a |-> 0, forward_b |-> 0,
         ex_mem_forward |-> Zero64, mem_wb_forward |-> Zero64]

(***************************************************************************)
(* Multiplication and division on 64-bit words, as Rust computes them.     *)
(***************************************************************************)
\* the 16 bytes of x as i128 (sign-extended) or as u128 (zero-extended)
Bytes128(x, signed) ==
    [j \in 0..15 |-> IF j < 8 THEN ByteOf(x, j)
                     ELSE IF signed /\ Bit(x, 63) = 1 THEN 255 ELSE 0]

\* column k of the schoolbook product of two 16-byte numbers
MulColumn(xb, yb, k) ==
    LET t(i) == IF i <= k THEN xb[i] * yb[k - i] ELSE 0
    IN  t(0) + t(1) + t(2) + t(3) + t(4) + t(5) + t(6) + t(7)
        + t(8) + t(9) + t(10) + t(11) + t(12) + t(13) + t(14) + t(15)

RECURSIVE MulCarry(_, _, _, _, _)
\* bytes k..15 of the product, given the carry into column k
MulCarry(xb, yb, k, carry, acc) ==
    IF k > 15 THEN acc
    ELSE LET s == MulColumn(xb, yb, k) + carry
         IN  MulCarry(xb, yb, k + 1, s \div 256, [acc EXCEPT ![k] = s % 256])

\* i128/u128::wrapping_mul: the low 128 bits of the product, as 16 bytes
wrapping_mul_128(xb, yb) == MulCarry(xb, yb, 0, 0, [j \in 0..15 |-> 0])

\* get_high_64_bit(x): bits 127..64 of a 128-bit value
get_high_64_bit(pb) ==
    <<pb[8] + 256 * pb[9], pb[10] + 256 * pb[11], pb[12] + 256 * pb[13], pb[14] + 256 * pb[15]>>

\* u64::wrapping_mul: the low 64 bits of the product
wrapping_mul(a, b) ==
    LET pb == wrapping_mul_128(Bytes128(a, FALSE), Bytes128(b, FALSE))
    IN  <<pb[0] + 256 * pb[1], pb[2] + 256 * pb[3], pb[4] + 256 * pb[5], pb[6] + 256 * pb[7]>>

\* a << 1 together with the bit shifted out
Shl1(a) ==
    LET s1 == 2 * a[1]
        s2 == 2 * a[2] + (s1 \div Limb)
        s3 == 2 * a[3] + (s2 \div Limb)
        s4 == 2 * a[4] + (s3 \div Limb)
    IN  [val |-> <<s1 % Limb, s2 % Limb, s3 % Limb, s4 % Limb>>, out |-> s4 \div Limb]

RECURSIVE DivStep(_, _, _, _, _)
\* restoring long division, bit i downto 0; q and r are quotient and remainder so far
DivStep(a, b, i, q, r) ==
    IF i < 0 THEN [q |-> q, r |-> r]
    ELSE LET sh == Shl1(r)
             r2 == [sh.val EXCEPT ![1] = @ + Bit(a, i)]
             ge == sh.out = 1 \/ ~LtU(r2, b)
         IN  IF ge
             THEN DivStep(a, b, i - 1,
                          [q EXCEPT ![(i \div 16) + 1] = @ + (2 ^ (i % 16))],
                          wrapping_sub(r2, b))
             ELSE DivStep(a, b, i - 1, q, r2)

\* u64::wrapping_div and u64::wrapping_rem, for b # 0
wrapping_div_u64(a, b) == DivStep(a, b, 63, Zero64, Zero64).q

wrapping_rem_u64(a, b) == DivStep(a, b, 63, Zero64, Zero64).r

wrapping_neg(a) == wrapping_sub(Zero64, a)

\* |a| as u64, a read as i64
Abs64(a) == IF Bit(a, 63) = 1 THEN wrapping_neg(a) ELSE a

\* i64::wrapping_div, for b # 0: truncating division, MIN / -1 wraps to MIN
wrapping_div_i64(a, b) ==
    LET q == wrapping_div_u64(Abs64(a), Abs64(b))
    IN  IF Bit(a, 63) # Bit(b, 63) THEN wrapping_neg(q) ELSE q

\* i64::wrapping_rem, for b # 0: the remainder has the sign of the dividend
wrapping_rem_i64(a, b) ==
    LET r == wrapping_rem_u64(Abs64(a), Abs64(b))
    IN  IF Bit(a, 63) = 1 THEN wrapping_neg(r) ELSE r

\* x as i32 as i64: the low 32 bits sign-extended
AsI32(x) == <<x[1], x[2], IF x[2] >= 32768 THEN Limb - 1 ELSE 0, IF x[2] >= 32768 THEN Limb - 1 ELSE 0>>

\* i32::wrapping_div of the low halves, as the u64 obtained by `as u64` of the i32 result
wrapping_div_i32(a, b) == AsI32(wrapping_div_i64(AsI32(a), AsI32(b)))

(***************************************************************************)
(* multi_stage/exec.rs                                                     *)
(***************************************************************************)
LoadOps == {"lb", "lh", "lw", "ld", "lbu", "lhu", "lwu"}

StoreOps == {"sb", "sh", "sw", "sd"}

CondBranchOps == {"beq", "bne", "blt", "bge", "bltu", "bgeu"}

\* the data-forward mux of one ALU input
exec_forward_mux(forward, src, ex_mem_forward, mem_wb_forward) ==
    CASE forward = 0 -> src
      [] forward = 2 -> ex_mem_forward
      [] forward = 1 -> mem_wb_forward

exec_mem_bitwidth(alu_op) ==
    CASE alu_op \in {"lb", "lbu", "sb"} -> 8
      [] alu_op \in {"lh", "lhu", "sh"} -> 16
      [] alu_op \in {"lw", "lwu", "sw"} -> 32
      [] alu_op \in {"ld", "sd"} -> 64
      [] OTHER -> 0

\* no load sign-extends
exec_mem_sext_to_none(alu_op) == 0

exec_mem_sext_to(alu_op) ==
    CASE alu_op = "lb" -> BYTE_BITWIDTH
      [] alu_op = "lh" -> HALF_BITWIDTH
      [] alu_op = "lw" -> WORD_BITWIDTH
      [] OTHER -> 0

\* whether the conditional branch alu_op is taken on (src1, src2)
exec_branch_taken(alu_op, src1, src2) ==
    CASE alu_op = "beq" -> src1 = src2
      [] alu_op = "bne" -> src1 # src2
      [] alu_op = "bge" -> ~LtS(src1, src2)
      [] alu_op = "bgeu" -> ~LtU(src1, src2)
      [] alu_op = "blt" -> LtS(src1, src2)
      [] alu_op = "bltu" -> LtU(src1, src2)

\* pc_src as the match arm of alu_op leaves it
exec_pc_src(itl_d_e, src1, src2) ==
    LET alu_op == itl_d_e.exec_flags.alu_op
    IN  CASE alu_op \in {"jal", "jalr"} -> TRUE
          [] alu_op = "beq" -> src1 = src2
          [] alu_op \in CondBranchOps \ {"beq"} ->
                exec_branch_taken(alu_op, src1, src2) \/ itl_d_e.branch_flags.pc_src
          [] OTHER -> itl_d_e.branch_flags.pc_src

\* new_pc_1 as the match arm of alu_op leaves it (pc + 4 unless a transfer is taken)
exec_new_pc_1(itl_d_e, src1, src2) ==
    LET alu_op == itl_d_e.exec_flags.alu_op
        pc == itl_d_e.pc
        imm == itl_d_e.imm
    IN  CASE alu_op = "jal" -> wrapping_add(pc, imm)
          [] alu_op = "jalr" -> bitand(wrapping_add(src1, imm), bitnot(One64))
          [] alu_op \in CondBranchOps /\ exec_branch_taken(alu_op, src1, src2) ->
                wrapping_add(pc, imm)
          [] OTHER -> wrapping_add(pc, U(4))

\* mem_addr as the match arm of alu_op leaves it
exec_mem_addr(itl_d_e, src1) ==
    IF itl_d_e.exec_flags.alu_op \in LoadOps \cup StoreOps
    THEN wrapping_add(src1, itl_d_e.imm)
    ELSE Zero64

\* the value of the big match on alu_op: Ok(alu_out), an exception, or a panic
exec_alu_out(alu_op, src1, src2, imm, pc) ==
    LET w32(x) == sext(trunc_to_32_bit(x), WORD_BITWIDTH)
        bool(b) == IF b THEN One64 ELSE Zero64
        sh6(x) == ToNat(trunc_to_6_bit(x))
        sh5(x) == ToNat(trunc_to_5_bit(x))
        chk == trunc_to_5_bit_and_check(imm)
        t1 == trunc_to_32_bit(src1)
        t2 == trunc_to_32_bit(src2)
        DivZero == Err("DividedByZero")
        Illegal == Err("IllegalInstruction")
    IN  CASE alu_op = "noop" -> Ok(Zero64)
          [] alu_op = "auipc" -> Ok(wrapping_add(pc, wrapping_shl(imm, 12)))
          [] alu_op = "lui" -> Ok(bitand(wrapping_shl(imm, 12), bitnot(U(4095))))
          [] alu_op \in LoadOps -> Ok(Zero64)
          [] alu_op = "sb" -> Ok(trunc_to_8_bit(src2))
          [] alu_op = "sh" -> Ok(trunc_to_16_bit(src2))
          [] alu_op = "sw" -> Ok(trunc_to_32_bit(src2))
          [] alu_op = "sd" -> Ok(src2)
          [] alu_op \in {"jal", "jalr"} -> Ok(wrapping_add(pc, U(4)))
          [] alu_op \in CondBranchOps -> Ok(Zero64)
          [] alu_op = "ecall" -> Panic("todo ecall")
          [] alu_op = "ebreak" -> Ok(Zero64)
          [] alu_op = "add" -> Ok(wrapping_add(src1, src2))
          [] alu_op = "addi" -> Ok(wrapping_add(src1, imm))
          [] alu_op = "addiw" -> Ok(w32(wrapping_add(src1, imm)))
          [] alu_op = "addw" -> Ok(w32(wrapping_add(src1, src2)))
          [] alu_op = "sub" -> Ok(wrapping_sub(src1, src2))
          [] alu_op = "subw" -> Ok(sext(trunc_to_32_bit(wrapping_sub(src1, src2)), WORD_BITWIDTH))
          [] alu_op = "slt" -> Ok(bool(LtS(src1, src2)))
          [] alu_op = "slti" -> Ok(bool(LtS(src1, imm)))
          [] alu_op = "sltu" -> Ok(bool(LtU(src1, src2)))
          [] alu_op = "sltiu" -> Ok(bool(LtU(src1, imm)))
          [] alu_op = "xor" -> Ok(bitxor(src1, src2))
          [] alu_op = "xori" -> Ok(bitxor(src1, imm))
          [] alu_op = "or" -> Ok(bitor(src1, src2))
          [] alu_op = "ori" -> Ok(bitor(src1, imm))
          [] alu_op = "and" -> Ok(bitand(src1, src2))
          [] alu_op = "andi" -> Ok(bitand(src1, imm))
          [] alu_op = "sll" -> Ok(wrapping_shl(src1, sh6(src2)))
          [] alu_op = "slli" -> Ok(wrapping_shl(src1, sh6(imm)))
          [] alu_op = "slliw" ->
                IF ~chk[2] THEN Illegal ELSE Ok(w32(wrapping_shl(src1, ToNat(chk[1]))))
          [] alu_op = "sllw" -> Ok(w32(wrapping_shl(t1, sh5(src2))))
          [] alu_op = "srl" -> Ok(wrapping_shr(src1, sh6(src2)))
          [] alu_op = "srli" -> Ok(wrapping_shr(src1, sh6(imm)))
          [] alu_op = "srliw" ->
                IF ~chk[2] THEN Illegal ELSE Ok(w32(wrapping_shr(t1, ToNat(chk[1]))))
          [] alu_op = "srlw" -> Ok(sext(wrapping_shr(t1, sh5(src2)), WORD_BITWIDTH))
          [] alu_op = "sra" -> Ok(wrapping_shr_i64(src1, sh6(src2)))
          [] alu_op = "srai" -> Ok(wrapping_shr_i64(src1, sh6(imm)))
          [] alu_op = "sraiw" ->
                IF ~chk[2] THEN Illegal ELSE Ok(wrapping_shr_i64(w32(src1), ToNat(chk[1])))
          [] alu_op = "sraw" -> Ok(sext(wrapping_shr_i64(w32(src1), sh5(src2)), WORD_BITWIDTH))
          [] alu_op = "mul" -> Ok(wrapping_mul(src1, src2))
          [] alu_op = "mulh" ->
                \* `src1 as i128` of a u64 zero-extends both operands
                Ok(get_high_64_bit(wrapping_mul_128(Bytes128(src1, FALSE), Bytes128(src2, FALSE))))
          [] alu_op = "mulhsu" ->
                Ok(get_high_64_bit(wrapping_mul_128(Bytes128(src1, TRUE), Bytes128(src2, FALSE))))
          [] alu_op = "mulhu" ->
                Ok(get_high_64_bit(wrapping_mul_128(Bytes128(src1, FALSE), Bytes128(src2, FALSE))))
          [] alu_op = "mulw" -> Ok(w32(wrapping_mul(src1, src2)))
          [] alu_op = "div" ->
                IF src2 = Zero64 THEN DivZero ELSE Ok(wrapping_div_i64(src1, src2))
          [] alu_op = "divu" ->
                IF src2 = Zero64 THEN DivZero ELSE Ok(wrapping_div_u64(src1, src2))
          [] alu_op = "divuw" ->
                IF t2 = Zero64 THEN DivZero ELSE Ok(w32(wrapping_div_u64(t1, t2)))
          [] alu_op = "divw" ->
                IF t2 = Zero64 THEN DivZero ELSE Ok(w32(wrapping_div_i32(src1, src2)))
          [] alu_op = "rem" ->
                IF src2 = Zero64 THEN DivZero ELSE Ok(wrapping_rem_i64(src1, src2))
          [] alu_op = "remu" ->
                IF src2 = Zero64 THEN DivZero ELSE Ok(wrapping_rem_u64(src1, src2))
          [] alu_op = "remuw" ->
                IF src2 = Zero64 THEN DivZero
                ELSE IF t2 = Zero64 THEN Panic("remainder with a divisor of zero")
                ELSE Ok(sext(wrapping_rem_u64(t1, t2), WORD_BITWIDTH))
          [] alu_op = "remw" ->
                IF src2 = Zero64 THEN DivZero
                ELSE IF t2 = Zero64 THEN Panic("remainder with a divisor of zero")
                ELSE Ok(wrapping_rem_i64(t1, t2))
          [] alu_op \in {"csrrc", "csrrci", "csrrs", "csrrsi", "csrrw", "csrrwi",
                        "mret", "sret", "fence", "fence_i", "wfi"} ->
                Panic("unimplemented Control registers")

\* the two ALU operands after the forwarding muxes
exec_src1(itl_d_e) ==
    exec_forward_mux(itl_d_e.forward_a, itl_d_e.src1,
                     itl_d_e.ex_mem_forward, itl_d_e.mem_wb_forward)

exec_src2(itl_d_e) ==
    exec_forward_mux(itl_d_e.forward_b, itl_d_e.src2,
                     itl_d_e.ex_mem_forward, itl_d_e.mem_wb_forward)

\* CallStack::new: the symbol table of the image (the addresses of the
\* functions of the ELF file, with their names) and no frame
CallStack_new(symbol_map) == [symbol_map |-> symbol_map, call_stack |-> <<>>]

\* CallStack::call: a frame is pushed when the target is the address of a
\* symbol
CallStack_call(self, pc, target_pc) ==
    IF target_pc \in DOMAIN self.symbol_map
    THEN [self EXCEPT !.call_stack = Append(@, <<pc, self.symbol_map[target_pc]>>)]
    ELSE self

\* CallStack::ret: the last frame is popped, if there is one
CallStack_ret(self, pc) ==
    IF self.call_stack # <<>>
    THEN [self EXCEPT !.call_stack = SubSeq(@, 1, Len(@) - 1)]
    ELSE self

\* what the jal and jalr arms of exec do to the call stack; new_pc_1 is the
\* target exec computed
exec_callstack(callstack, itl_d_e, new_pc_1) ==
    CASE itl_d_e.exec_flags.alu_op = "jal" ->
            CallStack_call(callstack, itl_d_e.pc, new_pc_1)
      [] /\ itl_d_e.exec_flags.alu_op = "jalr"
         /\ itl_d_e.rd = 0 /\ itl_d_e.imm = Zero64 /\ itl_d_e.rs1 = 1 ->
            CallStack_ret(callstack, itl_d_e.pc)
      [] OTHER -> callstack

\* exec(itl_d_e): Ok of the new EX/MEM latch with the two candidate next PCs
exec(itl_d_e) ==
    LET src1 == exec_src1(itl_d_e)
        src2 == exec_src2(itl_d_e)
        alu_op == itl_d_e.exec_flags.alu_op
        latch(r) ==
          IF r.kind # "ok" THEN r
          ELSE Ok([itl_e_m |->
                   [raw_inst |-> itl_d_e.raw_inst,
                    mem_flags |-> itl_d_e.mem_flags,
                    wb_flags |-> itl_d_e.wb_flags,
                    branch_flags |-> [itl_d_e.branch_flags EXCEPT
                                        !.pc_src = exec_pc_src(itl_d_e, src1, src2)],
                    pc |-> itl_d_e.pc,
                    rs1 |-> itl_d_e.rs1, rs2 |-> itl_d_e.rs2, rs3 |-> itl_d_e.rs3,
                    rd |-> itl_d_e.rd, imm |-> itl_d_e.imm,
                    alu_out |-> r.val,
                    mem_addr |-> exec_mem_addr(itl_d_e, src1),
                    mem_bitwidth |-> exec_mem_bitwidth(alu_op),
                    mem_sext_to |-> exec_mem_sext_to(alu_op),
                    m2m_forward |-> FALSE, m2m_forward_val |-> Zero64,
                    alu_op |-> alu_op],
                 new_pc_0 |-> wrapping_add(itl_d_e.pc, U(4)),
                 new_pc_1 |-> exec_new_pc_1(itl_d_e, src1, src2)])
    IN  latch(exec_alu_out(alu_op, src1, src2, itl_d_e.imm, itl_d_e.pc))

(***************************************************************************)
(* multi_stage/mem.rs                                                      *)
(***************************************************************************)
\* mem(itl_e_m, vm): the new MEM/WB latch and the memory after the access.
\* kind "ub": the raw-pointer access leaves the buffer (undefined behaviour).
mem(itl_e_m, vm) ==
    LET mem_read == itl_e_m.mem_flags.mem_read
        mem_write == itl_e_m.mem_flags.mem_write
        vaddr == itl_e_m.mem_addr
        bw == itl_e_m.mem_bitwidth
        regval0 == IF itl_e_m.m2m_forward THEN itl_e_m.m2m_forward_val ELSE itl_e_m.alu_out
        loaded == LET result == mread(vm, vaddr, bw)
                  IN  IF itl_e_m.mem_sext_to = 0 THEN result
                      ELSE sext(result, itl_e_m.mem_sext_to)
        latch(regval) ==
          Ok([itl_m_w |->
                   [raw_inst |-> itl_e_m.raw_inst,
                    wb_flags |-> itl_e_m.wb_flags,
                    branch_flags |-> itl_e_m.branch_flags,
                    mem_read |-> mem_read,
                    pc |-> itl_e_m.pc,
                    rs1 |-> itl_e_m.rs1, rs2 |-> itl_e_m.rs2, rs3 |-> itl_e_m.rs3,
                    rd |-> itl_e_m.rd, imm |-> itl_e_m.imm,
                    regval |-> regval,
                    alu_op |-> itl_e_m.alu_op],
                 vm |-> IF mem_write THEN mwrite(vm, vaddr, bw, regval) ELSE vm])
    IN  IF mem_read /\ mem_write THEN Panic("assert !(mem_read & mem_write)")
        ELSE IF mem_read /\ itl_e_m.m2m_forward THEN Panic("assert !m2m_forward")
        ELSE IF (mem_read \/ mem_write) /\ ~InRange(vm, vaddr, bw) THEN [kind |-> "ub"]
        ELSE latch(IF mem_read THEN loaded ELSE regval0)

(***************************************************************************)
(* multi_stage/writeback.rs                                                *)
(***************************************************************************)
\* no halt(pc, code) call has been made
NotHalted == [hit |-> FALSE, at |-> Zero64, code |-> Zero64]

\* a writeback that never reaches the register file
writeback_reg_file_dropped(itl_m_w, reg_file) == reg_file

\* the register file after the write-back of itl_m_w
writeback_reg_file(itl_m_w, reg_file) ==
    IF itl_m_w.wb_flags.mem_to_reg
    THEN reg_write(reg_file, itl_m_w.rd, IF itl_m_w.rd # 0 THEN itl_m_w.regval ELSE Zero64)
    ELSE reg_file

\* writeback(itl_m_w, reg_file): the register file, the running flag it returns,
\* and what it hands to halt(pc, code) when it retires an ebreak
writeback(itl_m_w, reg_file) ==
    LET rf == writeback_reg_file(itl_m_w, reg_file)
    IN  IF itl_m_w.alu_op = "ebreak"
        THEN [reg_file |-> rf, running |-> FALSE,
              halted |-> [hit |-> TRUE, at |-> itl_m_w.pc, code |-> reg_read(rf, 10)]]
        ELSE [reg_file |-> rf, running |-> TRUE, halted |-> NotHalted]

(***************************************************************************)
(* multi_stage/branch_predict.rs: BHT, BTB and RAS.  The two hash maps are *)
(* functions from the PCs they hold; the RAS is a sequence, top last.      *)
(***************************************************************************)
Insert(map, k, v) == (k :> v) @@ map

\* BHT::init_pc_predict: the initial counter of a PC
init_pc_predict(predict_policy) == IF predict_policy = "OneBitPredict" THEN 0 ELSE 1

\* BHT::predict: the prediction, and the table with the PC initialised
predict(bht, predict_policy, pc) ==
    LET result == IF pc \in DOMAIN bht THEN bht[pc] ELSE init_pc_predict(predict_policy)
    IN  [taken |-> IF predict_policy = "OneBitPredict" THEN result = 1 ELSE result \in {2, 3},
         bht |-> IF pc \in DOMAIN bht THEN bht ELSE Insert(bht, pc, result)]

\* the plain saturating counter: up by one when taken, down by one when not
two_bits_next_saturating(original_state, taken) ==
    IF taken THEN (IF original_state = 3 THEN 3 ELSE original_state + 1)
    ELSE (IF original_state = 0 THEN 0 ELSE original_state - 1)

\* the transition table of the two-bit counter
two_bits_next(original_state, taken) ==
    CASE original_state = 0 /\ ~taken -> 0
      [] original_state = 0 /\ taken -> 1
      [] original_state = 1 /\ ~taken -> 0
      [] original_state = 1 /\ taken -> 3
      [] original_state = 3 /\ ~taken -> 2
      [] original_state = 3 /\ taken -> 3
      [] original_state = 2 /\ ~taken -> 0
      [] original_state = 2 /\ taken -> 3

\* an update whose one-bit entry, once taken, stays taken
update_with_result_sticky(bht, predict_policy, pc, taken) ==
    IF predict_policy = "OneBitPredict"
    THEN Ok(Insert(bht, pc, IF taken \/ (pc \in DOMAIN bht /\ bht[pc] = 1) THEN 1 ELSE 0))
    ELSE IF pc \notin DOMAIN bht THEN Panic("Not initialized")
    ELSE Ok(Insert(bht, pc, two_bits_next(bht[pc], taken)))

\* BHT::update_with_result
update_with_result(bht, predict_policy, pc, taken) ==
    IF predict_policy = "OneBitPredict" THEN Ok(Insert(bht, pc, IF taken THEN 1 ELSE 0))
    ELSE IF pc \notin DOMAIN bht THEN Panic("Not initialized")
    ELSE Ok(Insert(bht, pc, two_bits_next(bht[pc], taken)))

\* BTB::query_target
query_target(btb, pc) == IF pc \in DOMAIN btb THEN Ok(btb[pc]) ELSE [kind |-> "none"]

\* BTB::add_entry: insert, then the sanity check on a changed non-jalr target
add_entry(btb, pc, target, is_jalr) ==
    IF ~is_jalr /\ pc \in DOMAIN btb /\ btb[pc] # target
    THEN Panic("assert old_target == target")
    ELSE Ok(Insert(btb, pc, target))

\* RAS::push and RAS::pop
ras_push(ras, ra) == Append(ras, ra)

ras_pop(ras) ==
    IF Len(ras) = 0 THEN [top |-> [kind |-> "none"], ras |-> ras]
    ELSE [top |-> Ok(ras[Len(ras)]), ras |-> SubSeq(ras, 1, Len(ras) - 1)]

(***************************************************************************)
(* multi_stage/fetch.rs: branch_predict and fetch.                         *)
(***************************************************************************)

\* a prediction that takes the target of a return from the BTB, as for any
\* other jalr, and leaves the RAS alone
branch_predict_ret_by_btb(itl_f_d, predict_policy, bht, btb, ras) ==
    LET alu_op == itl_f_d.exec_flags.alu_op
        target == query_target(btb, itl_f_d.pc)
        p == predict(bht, predict_policy, itl_f_d.pc)
        with(src, tgt) == [itl_f_d EXCEPT !.branch_flags.predicted_src = src,
                                          !.branch_flags.predicted_target = tgt]
    IN  IF alu_op \notin (CondBranchOps \cup {"jal", "jalr"})
        THEN [itl_f_d |-> with(FALSE, Zero64), bht |-> bht, ras |-> ras]
        ELSE IF target.kind = "none"
        THEN [itl_f_d |-> with(FALSE, itl_f_d.branch_flags.predicted_target),
              bht |-> p.bht, ras |-> ras]
        ELSE IF alu_op \in {"jal", "jalr"}
        THEN [itl_f_d |-> with(TRUE, target.val), bht |-> p.bht, ras |-> ras]
        ELSE [itl_f_d |-> with(p.taken, target.val), bht |-> p.bht, ras |-> ras]

\* a prediction that takes every jal, with target 0 when the BTB has no
\* entry for it
branch_predict_jal_always(itl_f_d, predict_policy, bht, btb, ras) ==
    LET alu_op == itl_f_d.exec_flags.alu_op
        target == query_target(btb, itl_f_d.pc)
        p == predict(bht, predict_policy, itl_f_d.pc)
        popped == ras_pop(ras)
        with(src, tgt) == [itl_f_d EXCEPT !.branch_flags.predicted_src = src,
                                          !.branch_flags.predicted_target = tgt]
    IN  IF alu_op \notin (CondBranchOps \cup {"jal", "jalr"})
        THEN [itl_f_d |-> with(FALSE, Zero64), bht |-> bht, ras |-> ras]
        ELSE IF target.kind = "none"
        THEN [itl_f_d |-> with(alu_op = "jal", itl_f_d.branch_flags.predicted_target),
              bht |-> p.bht, ras |-> ras]
        ELSE IF alu_op = "jalr"
        THEN IF itl_f_d.raw_inst = RET_INST
             THEN [itl_f_d |-> with(TRUE, IF popped.top.kind = "ok" THEN popped.top.val
                                          ELSE itl_f_d.pc),
                   bht |-> p.bht, ras |-> popped.ras]
             ELSE [itl_f_d |-> with(TRUE, target.val), bht |-> p.bht, ras |-> ras]
        ELSE IF alu_op = "jal"
        THEN [itl_f_d |-> with(TRUE, target.val), bht |-> p.bht, ras |-> ras]
        ELSE [itl_f_d |-> with(p.taken, target.val), bht |-> p.bht, ras |-> ras]

\* branch_predict under ControlPolicy::DynamicPredict: the latch with its
\* prediction, and the BHT and RAS as the prediction leaves them
branch_predict(itl_f_d, predict_policy, bht, btb, ras) ==
    LET alu_op == itl_f_d.exec_flags.alu_op
        target == query_target(btb, itl_f_d.pc)
        p == predict(bht, predict_policy, itl_f_d.pc)
        popped == ras_pop(ras)
        with(src, tgt) == [itl_f_d EXCEPT !.branch_flags.predicted_src = src,
                                          !.branch_flags.predicted_target = tgt]
    IN  IF alu_op \notin (CondBranchOps \cup {"jal", "jalr"})
        THEN [itl_f_d |-> with(FALSE, Zero64), bht |-> bht, ras |-> ras]
        ELSE IF target.kind = "none"
        THEN [itl_f_d |-> with(FALSE, itl_f_d.branch_flags.predicted_target),
              bht |-> p.bht, ras |-> ras]
        ELSE IF alu_op = "jalr"
        THEN IF itl_f_d.raw_inst = RET_INST
             THEN [itl_f_d |-> with(TRUE, IF popped.top.kind = "ok" THEN popped.top.val
                                          ELSE itl_f_d.pc),
                   bht |-> p.bht, ras |-> popped.ras]
             ELSE [itl_f_d |-> with(TRUE, target.val), bht |-> p.bht, ras |-> ras]
        ELSE IF alu_op = "jal"
        THEN [itl_f_d |-> with(TRUE, target.val), bht |-> p.bht, ras |-> ras]
        ELSE [itl_f_d |-> with(p.taken, target.val), bht |-> p.bht, ras |-> ras]

\* fetch(pc, vm, control_policy, bht, btb, ras): a fetch or decode error is
\* replaced by the default latch (a bubble); a panic while decoding is not
fetch(pc, vm, control_policy, predict_policy, bht, btb, ras) ==
    LET predicted(itl) ==
          CASE itl.kind = "panic" -> itl
            [] itl.kind = "err" ->
                  Ok([itl_f_d |-> InternalFetchDecode_default, bht |-> bht, ras |-> ras])
            [] itl.kind = "ok" ->
                  IF control_policy = "DynamicPredict"
                  THEN Ok(branch_predict(itl.val, predict_policy, bht, btb, ras))
                  ELSE Ok([itl_f_d |-> itl.val, bht |-> bht, ras |-> ras])
        interpreted(inst) ==
          predicted(IF inst.kind = "ok" THEN inst_interpret(pc, inst.val) ELSE inst)
    IN  interpreted(fetch_inst_pipeline(vm, pc))

\* the push of the return address when a call executes (the RAS is handed to
\* exec by the clock): jal with rd = 1 pushes its fall-through address
exec_ras_push(ras, itl_d_e) ==
    IF itl_d_e.exec_flags.alu_op = "jal" /\ itl_d_e.rd = 1
    THEN ras_push(ras, wrapping_add(itl_d_e.pc, U(4)))
    ELSE ras

(***************************************************************************)
(* multi_stage/cpu.rs: pipeline states and the hazard detection unit.      *)
(***************************************************************************)
PIPELINE_STATES_DEPTH == 5

state_max(a, b) ==
    LET rank(s) == CASE s = "Normal" -> 0 [] s = "Bubble" -> 1 [] s = "Stall" -> 2
    IN  IF rank(a) >= rank(b) THEN a ELSE b

\* the *_pipeline_states_set methods: elementwise max over the common prefix
pipeline_states_set(cur, states) ==
    [k \in 1..PIPELINE_STATES_DEPTH |->
        IF k <= Len(states) THEN state_max(cur[k], states[k]) ELSE cur[k]]

\* a clock end that leaves the queue of states as it is
pipeline_states_kept(cur) == cur

\* rotate_left(1) followed by the write of Normal into the last slot
pipeline_states_rotate(cur) ==
    [k \in 1..PIPELINE_STATES_DEPTH |->
        IF k < PIPELINE_STATES_DEPTH THEN cur[k + 1] ELSE "Normal"]

AllNormal == [k \in 1..PIPELINE_STATES_DEPTH |-> "Normal"]

\* a load-use test that forgets the second source register
load_use_detected_rs1_only(itl_d_e, itl_f_d) ==
    itl_d_e.mem_flags.mem_read /\ itl_d_e.rd = itl_f_d.rs1

\* load-use detection at the head of the clock
load_use_detected(itl_d_e, itl_f_d) ==
    itl_d_e.mem_flags.mem_read
    /\ (itl_d_e.rd = itl_f_d.rs1 \/ itl_d_e.rd = itl_f_d.rs2)

\* NaiveStall, load feeding the data of a store
naive_m2m_hit(itl_d_e, itl_f_d) ==
    itl_d_e.rd # 0 /\ itl_d_e.rd = itl_f_d.rs2
    /\ itl_d_e.mem_flags.mem_read /\ itl_f_d.mem_flags.mem_write

\* NaiveStall, producer in ID/EX
naive_id_ex_hit(itl_d_e, itl_f_d) ==
    itl_d_e.wb_flags.mem_to_reg /\ itl_d_e.rd # 0
    /\ (itl_d_e.rd = itl_f_d.rs1 \/ itl_d_e.rd = itl_f_d.rs2)

\* an EX/MEM test that forgets the second source register
naive_ex_mem_hit_rs1_only(itl_e_m, itl_d_e, itl_f_d) ==
    itl_e_m.wb_flags.mem_to_reg /\ itl_e_m.rd # 0
    /\ itl_d_e.rd # itl_f_d.rs1 /\ itl_e_m.rd = itl_f_d.rs1

\* NaiveStall, producer in EX/MEM
naive_ex_mem_hit(itl_e_m, itl_d_e, itl_f_d) ==
    itl_e_m.wb_flags.mem_to_reg /\ itl_e_m.rd # 0
    /\ ((itl_d_e.rd # itl_f_d.rs1 /\ itl_e_m.rd = itl_f_d.rs1)
        \/ (itl_d_e.rd # itl_f_d.rs2 /\ itl_e_m.rd = itl_f_d.rs2))

\* DataForward, MEM/WB load feeding the data of the store in EX/MEM
forward_m2m_hit(itl_m_w, itl_e_m) ==
    itl_m_w.rd # 0 /\ itl_m_w.rd = itl_e_m.rs2
    /\ itl_m_w.mem_read /\ itl_e_m.mem_flags.mem_write

\* DataForward, EX/MEM result feeding register rs of ID/EX
forward_ex_mem_hit(itl_e_m, rs) ==
    itl_e_m.wb_flags.mem_to_reg /\ itl_e_m.rd # 0 /\ itl_e_m.rd = rs

\* a MEM/WB test that does not look at the rd of EX/MEM
forward_mem_wb_hit_any(itl_m_w, itl_e_m, rs) ==
    itl_m_w.wb_flags.mem_to_reg /\ itl_m_w.rd # 0 /\ itl_m_w.rd = rs

\* DataForward, MEM/WB result feeding register rs of ID/EX
forward_mem_wb_hit(itl_m_w, itl_e_m, rs) ==
    itl_m_w.wb_flags.mem_to_reg /\ itl_m_w.rd # 0
    /\ itl_e_m.rd # rs /\ itl_m_w.rd = rs

B2N(b) == IF b THEN 1 ELSE 0

\* The hazard unit of one clock, before the stages run: the stall requests
\* on the three state queues, the forwarding written into ID/EX and EX/MEM,
\* and the increments of the data-hazard statistics.
hazard_unit(data_hazard_policy, itl_f_d, itl_d_e, itl_e_m, itl_m_w, d_e_s, f_d_s, pc_s) ==
    LET lu == load_use_detected(itl_d_e, itl_f_d)
    IN  IF data_hazard_policy = "NaiveStall"
        THEN LET m2m == naive_m2m_hit(itl_d_e, itl_f_d)
                 h2 == naive_id_ex_hit(itl_d_e, itl_f_d)
                 h1 == naive_ex_mem_hit(itl_e_m, itl_d_e, itl_f_d)
                 two(q, yes, s) == IF yes THEN pipeline_states_set(q, s) ELSE q
                 d1 == two(d_e_s, m2m, <<"Bubble">>)
                 f1 == two(f_d_s, m2m, <<"Stall", "Bubble">>)
                 p1 == two(pc_s, m2m, <<"Stall", "Stall">>)
                 d2 == two(d1, h2, <<"Bubble">>)
                 f2 == two(f1, h2, <<"Stall", "Bubble">>)
                 p2 == two(p1, h2, <<"Stall", "Stall">>)
             IN  [kind |-> "ok",
                  d_e_s |-> two(d2, h1, <<"Bubble">>),
                  f_d_s |-> two(f2, h1, <<"Stall">>),
                  pc_s |-> two(p2, h1, <<"Stall">>),
                  itl_d_e |-> itl_d_e, itl_e_m |-> itl_e_m,
                  count |-> B2N(lu) + B2N(m2m) + B2N(h2) + B2N(h1),
                  delayed |-> 2 * B2N(m2m) + 2 * B2N(h2) + B2N(h1),
                  load_use |-> lu]
        ELSE LET m2m == forward_m2m_hit(itl_m_w, itl_e_m)
                 ea == forward_ex_mem_hit(itl_e_m, itl_d_e.rs1)
                 eb == forward_ex_mem_hit(itl_e_m, itl_d_e.rs2)
                 ma == forward_mem_wb_hit(itl_m_w, itl_e_m, itl_d_e.rs1)
                 mb == forward_mem_wb_hit(itl_m_w, itl_e_m, itl_d_e.rs2)
                 fa == IF ea THEN 2 ELSE itl_d_e.forward_a
                 fb == IF eb THEN 2 ELSE itl_d_e.forward_b
             IN  IF (ma /\ fa # 0) \/ (mb /\ fb # 0) THEN Panic("assert_eq forward")
                 ELSE [kind |-> "ok",
                       d_e_s |-> d_e_s, f_d_s |-> f_d_s, pc_s |-> pc_s,
                       itl_d_e |-> [itl_d_e EXCEPT !.forward_a = IF ma THEN 1 ELSE fa,
                                                   !.forward_b = IF mb THEN 1 ELSE fb,
                                                   !.ex_mem_forward = itl_e_m.alu_out,
                                                   !.mem_wb_forward = itl_m_w.regval],
                       itl_e_m |-> IF m2m
                                   THEN [itl_e_m EXCEPT !.m2m_forward = TRUE,
                                                        !.m2m_forward_val = itl_m_w.regval]
                                   ELSE itl_e_m,
                       count |-> B2N(lu) + B2N(m2m) + B2N(ea \/ eb) + B2N(ma \/ mb),
                       delayed |-> 0,
                       load_use |-> lu]

(***************************************************************************)
(* multi_stage/cpu.rs: one clock of the pipelined CPU.  self is the CPU    *)
(* struct as a record; clock returns the struct as the call leaves it,     *)
(* the Result of the call (or the panic that ended the process), and the   *)
(* halt(pc, code) call that writeback made, if any.                        *)
(***************************************************************************)
\* the latch a stage register takes at the end of the clock
latch_select(state, new, default, old) ==
    CASE state = "Normal" -> new
      [] state = "Bubble" -> default
      [] state = "Stall" -> old

\* a misprediction test that looks at conditional branches only
clock_mispredict_cond_only(new_itl_e_m, new_pc_1) ==
    new_itl_e_m.alu_op \in CondBranchOps
    /\ new_itl_e_m.branch_flags.pc_src # new_itl_e_m.branch_flags.predicted_src

\* the misprediction test on the instruction that leaves EX
clock_mispredict(new_itl_e_m, new_pc_1) ==
    new_itl_e_m.branch_flags.branch
    /\ (new_itl_e_m.branch_flags.pc_src # new_itl_e_m.branch_flags.predicted_src
        \/ (is_ret(new_itl_e_m) /\ new_pc_1 # new_itl_e_m.branch_flags.predicted_target))

\* a flush that goes through the *_pipeline_states_set methods (max)
clock_flush_by_set(mispredict, states, to) ==
    IF mispredict THEN pipeline_states_set(states, <<to>>) ELSE states

\* on a misprediction the head of a state queue is overwritten (no max)
clock_flush(mispredict, states, to) ==
    IF mispredict THEN [states EXCEPT ![1] = to] ELSE states

\* the load-use stall of the DataForward policy, requested after the flush
clock_load_use_stall(load_use, states, to) ==
    IF load_use THEN pipeline_states_set(states, <<to>>) ELSE states

\* a charge of one extra clock for every instruction that leaves EX
clock_extra_every_inst(new_itl_e_m, new_itl_m_w) ==
    IF new_itl_e_m.alu_op # "noop" THEN 1 ELSE 0

\* a charge that treats a multiplication as a single-clock operation
clock_extra_free_mul(new_itl_e_m, new_itl_m_w) ==
    LET op == new_itl_e_m.alu_op
        paired == \/ (op = "rem" /\ new_itl_m_w.alu_op = "div")
                  \/ (op = "remw" /\ new_itl_m_w.alu_op = "divw")
                  \/ (op = "remu" /\ new_itl_m_w.alu_op = "divu")
                  \/ (op = "remuw" /\ new_itl_m_w.alu_op = "divuw")
    IN  CASE op \in {"div", "divu", "divuw", "divw"} -> 39
          [] op \in {"rem", "remu", "remuw", "remw"} ->
                IF paired /\ new_itl_e_m.rs1 = new_itl_m_w.rs1
                          /\ new_itl_e_m.rs2 = new_itl_m_w.rs2
                THEN 0 ELSE 39
          [] OTHER -> 0

\* a charge that pairs a rem with any div before it, whatever its kind
clock_extra_any_div(new_itl_e_m, new_itl_m_w) ==
    LET op == new_itl_e_m.alu_op
    IN  CASE op \in {"div", "divu", "divuw", "divw"} -> 39
          [] op \in {"rem", "remu", "remuw", "remw"} ->
                IF new_itl_m_w.alu_op \in {"div", "divu", "divuw", "divw"}
                   /\ new_itl_e_m.rs1 = new_itl_m_w.rs1
                   /\ new_itl_e_m.rs2 = new_itl_m_w.rs2
                THEN 0 ELSE 39
          [] op \in {"mul", "mulh", "mulhsu", "mulhu", "mulw"} -> 1
          [] OTHER -> 0

\* the extra clocks charged for the instruction that leaves EX
clock_extra(new_itl_e_m, new_itl_m_w) ==
    LET op == new_itl_e_m.alu_op
        paired == \/ (op = "rem" /\ new_itl_m_w.alu_op = "div")
                  \/ (op = "remw" /\ new_itl_m_w.alu_op = "divw")
                  \/ (op = "remu" /\ new_itl_m_w.alu_op = "divu")
                  \/ (op = "remuw" /\ new_itl_m_w.alu_op = "divuw")
    IN  CASE op \in {"div", "divu", "divuw", "divw"} -> 39
          [] op \in {"rem", "remu", "remuw", "remw"} ->
                IF paired /\ new_itl_e_m.rs1 = new_itl_m_w.rs1
                          /\ new_itl_e_m.rs2 = new_itl_m_w.rs2
                THEN 0 ELSE 39
          [] op \in {"mul", "mulh", "mulhsu", "mulhu", "mulw"} -> 1
          [] OTHER -> 0

\* the next PC, given the state of the PC queue's head
clock_next_pc(pc_next_state, mispredict, pc_src, new_pc_0, new_pc_1, new_itl_f_d, pc) ==
    CASE pc_next_state = "Stall" -> Ok(pc)
      [] pc_next_state = "Bubble" -> Panic("unreachable")
      [] pc_next_state = "Normal" ->
            IF mispredict
            THEN Ok(IF pc_src THEN new_pc_1 ELSE new_pc_0)
            ELSE IF new_itl_f_d.branch_flags.predicted_src
            THEN Ok(new_itl_f_d.branch_flags.predicted_target)
            ELSE Ok(wrapping_add(pc, U(4)))

\* the BTB and BHT after EX resolved a control instruction (DynamicPredict)
clock_update_predictor(self, bht, new_itl_e_m, new_pc_1) ==
    IF new_itl_e_m.branch_flags.branch /\ self.control_policy = "DynamicPredict"
    THEN LET b == add_entry(self.btb, new_itl_e_m.pc, new_pc_1, new_itl_e_m.alu_op = "jalr")
             h == update_with_result(bht, self.predict_policy, new_itl_e_m.pc,
                                     new_itl_e_m.branch_flags.pc_src)
         IN  IF b.kind # "ok" THEN b
             ELSE IF h.kind # "ok" THEN h
             ELSE Ok([btb |-> b.val, bht |-> h.val])
    ELSE Ok([btb |-> self.btb, bht |-> bht])

\* what a clock hands back: the Result (or panic, or undefined behaviour),
\* the CPU struct, and the halt call made by writeback
ClockResult(kind, err, self, halted) ==
    [kind |-> kind, err |-> err, cpu |-> self, halted |-> halted]

\* CPU::clock
clock(self) ==
    LET phases(hz) ==
          LET s0 == [self EXCEPT !.clock = @ + 1]
              s1 == [s0 EXCEPT !.itl_d_e = hz.itl_d_e, !.itl_e_m = hz.itl_e_m,
                               !.cpu_statistics.data_hazard_count = @ + hz.count,
                               !.cpu_statistics.data_hazard_delayed_cycles = @ + hz.delayed,
                               !.d_e_pipeline_states = hz.d_e_s,
                               !.f_d_pipeline_states = hz.f_d_s,
                               !.pc_next_states = hz.pc_s]
              wb == writeback(self.itl_m_w, self.reg_file)
              s2 == [s1 EXCEPT !.reg_file = wb.reg_file]
              back(mm, ex, new_itl_d_e_0) ==
                LET s3 == [s2 EXCEPT !.vm = mm.val.vm]
                    s4 == [s3 EXCEPT !.ras = exec_ras_push(@, s1.itl_d_e),
                                     !.callstack = exec_callstack(@, s1.itl_d_e,
                                                                  ex.val.new_pc_1)]
                    front(fe) ==
                      LET s5 == [s4 EXCEPT !.bht = fe.val.bht, !.ras = fe.val.ras]
                          new_pc_0 == ex.val.new_pc_0
                          new_pc_1 == ex.val.new_pc_1
                          pc_src == ex.val.itl_e_m.branch_flags.pc_src
                          mispredict == clock_mispredict(ex.val.itl_e_m, new_pc_1)
                          lu == hz.load_use /\ self.data_hazard_policy = "DataForward"
                          d_e_m == clock_flush(mispredict, hz.d_e_s, "Bubble")
                          f_d_m == clock_flush(mispredict, hz.f_d_s, "Bubble")
                          pc_m == clock_flush(mispredict, hz.pc_s, "Normal")
                          d_e_s == clock_load_use_stall(lu, d_e_m, "Bubble")
                          f_d_s == clock_load_use_stall(lu, f_d_m, "Stall")
                          pc_s == clock_load_use_stall(lu, pc_m, "Stall")
                          new_itl_m_w == latch_select(self.m_w_pipeline_states[1],
                                                      mm.val.itl_m_w,
                                                      InternalMemWb_default, self.itl_m_w)
                          new_itl_e_m == latch_select(self.e_m_pipeline_states[1],
                                                      ex.val.itl_e_m,
                                                      InternalExecMem_default, s1.itl_e_m)
                          new_itl_d_e == latch_select(d_e_s[1], new_itl_d_e_0,
                                                      InternalDecodeExec_default, s1.itl_d_e)
                          new_itl_f_d == latch_select(f_d_s[1], fe.val.itl_f_d,
                                                      InternalFetchDecode_default,
                                                      self.itl_f_d)
                          commit(up, next_pc) ==
                            LET s6 == [s5 EXCEPT
                                         !.btb = up.val.btb, !.bht = up.val.bht,
                                         !.cpu_statistics.control_hazard_count =
                                             @ + B2N(mispredict),
                                         !.cpu_statistics.control_hazard_delayed_cycles =
                                             @ + 2 * B2N(mispredict),
                                         !.cpu_statistics.data_hazard_delayed_cycles =
                                             @ + B2N(lu),
                                         !.cpu_statistics.executed_inst_count =
                                             @ + B2N(new_itl_e_m.alu_op # "noop"),
                                         !.clock = @ + clock_extra(new_itl_e_m, new_itl_m_w),
                                         !.itl_m_w = new_itl_m_w, !.itl_e_m = new_itl_e_m,
                                         !.itl_d_e = new_itl_d_e, !.itl_f_d = new_itl_f_d,
                                         !.d_e_pipeline_states = d_e_s,
                                         !.f_d_pipeline_states = f_d_s,
                                         !.pc_next_states = pc_s]
                                s7 == [s6 EXCEPT
                                         !.pc = next_pc.val,
                                         !.reg_file = reg_write(@, 0, Zero64),
                                         !.running = wb.running,
                                         !.m_w_pipeline_states = pipeline_states_rotate(@),
                                         !.e_m_pipeline_states = pipeline_states_rotate(@),
                                         !.d_e_pipeline_states = pipeline_states_rotate(@),
                                         !.f_d_pipeline_states = pipeline_states_rotate(@),
                                         !.pc_next_states = pipeline_states_rotate(@)]
                            IN  CASE up.kind # "ok" ->
                                        ClockResult(up.kind, up.err, s5, wb.halted)
                                  [] up.kind = "ok" /\ next_pc.kind # "ok" ->
                                        ClockResult(next_pc.kind, next_pc.err, s6, wb.halted)
                                  [] OTHER -> ClockResult("ok", "", s7, wb.halted)
                      IN  IF fe.kind # "ok" THEN ClockResult(fe.kind, fe.err, s4, wb.halted)
                          ELSE commit(clock_update_predictor(self, fe.val.bht,
                                                             ex.val.itl_e_m, new_pc_1),
                                      clock_next_pc(pc_s[1], mispredict, pc_src, new_pc_0,
                                                    new_pc_1, new_itl_f_d, self.pc))
                IN  CASE mm.kind = "ub" -> ClockResult("ub", "out of range", s2, wb.halted)
                      [] mm.kind = "panic" -> ClockResult("panic", mm.err, s2, wb.halted)
                      [] mm.kind = "ok" /\ ex.kind # "ok" ->
                            ClockResult(ex.kind, ex.err, s3, wb.halted)
                      [] OTHER -> front(fetch(self.pc, s4.vm, self.control_policy,
                                              self.predict_policy, self.bht, self.btb,
                                              s4.ras))
          IN  IF hz.kind # "ok" THEN ClockResult(hz.kind, hz.err, s0, NotHalted)
              ELSE back(mem(s1.itl_e_m, self.vm), exec(s1.itl_d_e),
                        decode(s2.reg_file, self.itl_f_d))
    IN  phases(hazard_unit(self.data_hazard_policy, self.itl_f_d, self.itl_d_e,
                           self.itl_e_m, self.itl_m_w, self.d_e_pipeline_states,
                           self.f_d_pipeline_states, self.pc_next_states))

(***************************************************************************)
(* single_cycle: decode and exec_inst of the single-cycle CPU.             *)
(***************************************************************************)
\* decode(inst): the opcode routing of decode.rs.  Its per-opcode tables
\* are the ones of fetch.rs (same funct tables, same rd/rs1/rs2/imm
\* extraction); the floating-point, AMO and MISC_MEM decoders and the
\* fall-through arm are todo!().
sc_decode(inst) ==
    LET op == opcode(inst)
        internal(r) ==
          IF r.kind # "ok" THEN r
          ELSE Ok([inst |-> r.val.exec_flags.alu_op, raw_inst |-> inst,
                   rs1 |-> r.val.rs1, rs2 |-> r.val.rs2, rs3 |-> 0, rd |-> r.val.rd,
                   imm |-> r.val.imm, pc |-> Zero64])
    IN  internal(CASE op = LOAD -> decode_load(inst)
               [] op = OP_IMM -> decode_op_imm(inst)
               [] op = AUIPC -> decode_op_auipc(inst)
               [] op = OP_IMM_32 -> decode_op_imm_32(inst)
               [] op = STORE -> decode_store(inst)
               [] op = OP -> decode_op(inst)
               [] op = LUI -> decode_lui(inst)
               [] op = OP_32 -> decode_op_32(inst)
               [] op = BRANCH -> decode_branch(inst)
               [] op = JALR -> decode_jalr(inst)
               [] op = JAL -> decode_jal(inst)
               [] op = SYSTEM -> decode_system(inst)
               [] OTHER -> Panic("todo"))

\* the value such an instruction writes, or the exception it returns
sc_result(inst, src1, src2, imm, pc) ==
    LET immI == sext(imm, I_TYPE_IMM_BITWIDTH)
        w32(x) == sext(trunc_to_32_bit(x), WORD_BITWIDTH)
        bool(b) == IF b THEN One64 ELSE Zero64
        sh6(x) == ToNat(trunc_to_6_bit(x))
        sh5(x) == ToNat(trunc_to_5_bit(x))
        chk == trunc_to_5_bit_and_check(imm)
        t1 == trunc_to_32_bit(src1)
        t2 == trunc_to_32_bit(src2)
        DivZero == Err("DividedByZero")
        Illegal == Err("IllegalInstruction")
    IN  CASE inst = "add" -> Ok(wrapping_add(src1, src2))
          [] inst = "addi" -> Ok(wrapping_add(src1, immI))
          [] inst = "addiw" -> Ok(w32(wrapping_add(src1, immI)))
          [] inst = "addw" -> Ok(w32(wrapping_add(src1, src2)))
          [] inst = "and" -> Ok(bitand(src1, src2))
          [] inst = "andi" -> Ok(bitand(src1, immI))
          [] inst = "auipc" ->
                Ok(wrapping_add(pc, wrapping_shl(sext(imm, U_TYPE_IMM_BITWIDTH), 12)))
          [] inst = "div" ->
                IF src2 = Zero64 THEN DivZero ELSE Ok(wrapping_div_i64(src1, src2))
          [] inst = "divu" ->
                IF src2 = Zero64 THEN DivZero ELSE Ok(wrapping_div_u64(src1, src2))
          [] inst = "divuw" ->
                IF t2 = Zero64 THEN DivZero ELSE Ok(w32(wrapping_div_u64(t1, t2)))
          [] inst = "divw" ->
                IF t2 = Zero64 THEN DivZero ELSE Ok(w32(wrapping_div_i32(src1, src2)))
          [] inst = "lui" ->
                Ok(bitand(wrapping_shl(sext(imm, U_TYPE_IMM_BITWIDTH), 12), bitnot(U(4095))))
          [] inst = "mul" -> Ok(wrapping_mul(src1, src2))
          [] inst = "mulh" ->
                \* `src1 as i128` of a u64 zero-extends both operands
                Ok(get_high_64_bit(wrapping_mul_128(Bytes128(src1, FALSE), Bytes128(src2, FALSE))))
          [] inst = "mulhsu" ->
                Ok(get_high_64_bit(wrapping_mul_128(Bytes128(src1, TRUE), Bytes128(src2, FALSE))))
          [] inst = "mulhu" ->
                Ok(get_high_64_bit(wrapping_mul_128(Bytes128(src1, FALSE), Bytes128(src2, FALSE))))
          [] inst = "mulw" -> Ok(w32(wrapping_mul(src1, src2)))
          [] inst = "or" -> Ok(bitor(src1, src2))
          [] inst = "ori" -> Ok(bitor(src1, immI))
          [] inst = "rem" ->
                IF src2 = Zero64 THEN DivZero ELSE Ok(wrapping_rem_i64(src1, src2))
          [] inst = "remu" ->
                IF src2 = Zero64 THEN DivZero ELSE Ok(wrapping_rem_u64(src1, src2))
          [] inst = "remuw" ->
                IF src2 = Zero64 THEN DivZero
                ELSE IF t2 = Zero64 THEN Panic("remainder with a divisor of zero")
                ELSE Ok(sext(wrapping_rem_u64(t1, t2), WORD_BITWIDTH))
          [] inst = "remw" ->
                IF src2 = Zero64 THEN DivZero
                ELSE IF t2 = Zero64 THEN Panic("remainder with a divisor of zero")
                ELSE Ok(wrapping_rem_i64(t1, t2))
          [] inst = "sll" -> Ok(wrapping_shl(src1, sh6(src2)))
          [] inst = "slli" -> Ok(wrapping_shl(src1, sh6(imm)))
          [] inst = "slliw" ->
                IF ~chk[2] THEN Illegal ELSE Ok(w32(wrapping_shl(src1, ToNat(chk[1]))))
          [] inst = "sllw" -> Ok(w32(wrapping_shl(t1, sh5(src2))))
          [] inst = "slt" -> Ok(bool(LtS(src1, src2)))
          [] inst = "slti" -> Ok(bool(LtS(src1, immI)))
          [] inst = "sltiu" -> Ok(bool(LtU(src1, immI)))
          [] inst = "sltu" -> Ok(bool(LtU(src1, src2)))
          [] inst = "sra" -> Ok(wrapping_shr_i64(src1, sh6(src2)))
          [] inst = "srai" -> Ok(wrapping_shr_i64(src1, sh6(imm)))
          [] inst = "sraiw" ->
                IF ~chk[2] THEN Illegal ELSE Ok(wrapping_shr_i64(w32(src1), ToNat(chk[1])))
          [] inst = "sraw" -> Ok(sext(wrapping_shr_i64(w32(src1), sh5(src2)), WORD_BITWIDTH))
          [] inst = "srl" -> Ok(wrapping_shr(src1, sh6(src2)))
          [] inst = "srli" -> Ok(wrapping_shr(src1, sh6(imm)))
          [] inst = "srliw" ->
                IF ~chk[2] THEN Illegal ELSE Ok(w32(wrapping_shr(t1, ToNat(chk[1]))))
          [] inst = "srlw" -> Ok(sext(wrapping_shr(t1, sh5(src2)), WORD_BITWIDTH))
          [] inst = "sub" -> Ok(wrapping_sub(src1, src2))
          [] inst = "subw" -> Ok(sext(trunc_to_32_bit(wrapping_sub(src1, src2)), WORD_BITWIDTH))
          [] inst = "xor" -> Ok(bitxor(src1, src2))
          [] inst = "xori" -> Ok(bitxor(src1, immI))

\* the branch decision of exec_inst
sc_branch_taken(inst, src1, src2) ==
    CASE inst = "beq" -> src1 = src2
      [] inst = "bne" -> src1 # src2
      [] inst = "blt" -> LtS(src1, src2)
      [] inst = "bge" -> ~LtS(src1, src2)
      [] inst = "bltu" -> LtU(src1, src2)
      [] inst = "bgeu" -> ~LtU(src1, src2)

\* width of the access of a load or store
sc_bitwidth(inst) ==
    CASE inst \in {"lb", "lbu", "sb"} -> 8
      [] inst \in {"lh", "lhu", "sh"} -> 16
      [] inst \in {"lw", "lwu", "sw"} -> 32
      [] inst \in {"ld", "sd"} -> 64

\* the value a load writes to rd
sc_loaded(vm, inst, vaddr) ==
    LET result == mread(vm, vaddr, sc_bitwidth(inst))
    IN  CASE inst = "lb" -> sext(result, BYTE_BITWIDTH)
          [] inst = "lh" -> sext(result, HALF_BITWIDTH)
          [] inst = "lw" -> sext(result, WORD_BITWIDTH)
          [] OTHER -> result

\* exec_inst without its final reg_file.write(0, 0)
sc_commit_without_x0_reset(self, reg_file, vm, next_pc) ==
    [self EXCEPT !.reg_file = reg_file, !.vm = vm, !.pc = next_pc]

\* the tail of exec_inst: the PC write and the reset of x0
sc_commit(self, reg_file, vm, next_pc) ==
    [self EXCEPT !.reg_file = reg_write(reg_file, 0, Zero64), !.vm = vm, !.pc = next_pc]

\* an instruction that stops the run with an error
exec_inst_unknown_fails(self) == ClockResult("err", "Execute", self, NotHalted)

\* the last arm of exec_inst: "Unknown inst" is logged, nothing is written,
\* and the tail of exec_inst moves the PC to the next instruction
exec_inst_unknown(self) ==
    ClockResult("ok", "", sc_commit(self, self.reg_file, self.vm, wrapping_add(self.pc, U(4))),
                NotHalted)

\* CPU::exec_inst of the single-cycle core
exec_inst(self, exec_itrnl) ==
    LET pc == self.pc
        inst == exec_itrnl.inst
        rd_ == exec_itrnl.rd
        src1 == reg_read(self.reg_file, exec_itrnl.rs1)
        src2 == reg_read(self.reg_file, exec_itrnl.rs2)
        imm == exec_itrnl.imm
        pc4 == wrapping_add(pc, U(4))
        st_val == CASE inst = "sb" -> trunc_to_8_bit(src2)
                    [] inst = "sh" -> trunc_to_16_bit(src2)
                    [] inst = "sw" -> trunc_to_32_bit(src2)
                    [] inst = "sd" -> src2
        write_back(res) ==
          IF res.kind # "ok" THEN ClockResult(res.kind, res.err, self, NotHalted)
          ELSE ClockResult("ok", "",
                  sc_commit(self, reg_write(self.reg_file, rd_, res.val), self.vm, pc4),
                  NotHalted)
        jump(ld_addr) ==
          ClockResult("ok", "",
              [sc_commit(self, reg_write(self.reg_file, rd_, pc4), self.vm,
                         bitand(ld_addr, bitnot(One64)))
                  EXCEPT !.callstack = IF exec_itrnl.raw_inst = RET_INST
                                       THEN CallStack_ret(@, pc) ELSE @],
              NotHalted)
        load(ld_addr) ==
          IF ~InRange(self.vm, ld_addr, sc_bitwidth(inst))
          THEN ClockResult("ub", "out of range", self, NotHalted)
          ELSE ClockResult("ok", "",
                  sc_commit(self, reg_write(self.reg_file, rd_,
                                            sc_loaded(self.vm, inst, ld_addr)),
                            self.vm, pc4),
                  NotHalted)
        store(st_addr) ==
          IF ~InRange(self.vm, st_addr, sc_bitwidth(inst))
          THEN ClockResult("ub", "out of range", self, NotHalted)
          ELSE ClockResult("ok", "",
                  sc_commit(self, self.reg_file,
                            mwrite(self.vm, st_addr, sc_bitwidth(inst), st_val), pc4),
                  NotHalted)
    IN  CASE inst \in {"add", "addi", "addiw", "addw", "and", "andi", "auipc", "div", "divu",
                      "divuw", "divw", "lui", "mul", "mulh", "mulhsu", "mulhu", "mulw",
                      "or", "ori", "rem", "remu", "remuw", "remw", "sll", "slli", "slliw",
                      "sllw", "slt", "slti", "sltiu", "sltu", "sra", "srai", "sraiw",
                      "sraw", "srl", "srli", "srliw", "srlw", "sub", "subw", "xor",
                      "xori"} ->
                write_back(sc_result(inst, src1, src2, imm, pc))
          [] inst \in CondBranchOps ->
                ClockResult("ok", "",
                    sc_commit(self, self.reg_file, self.vm,
                              IF sc_branch_taken(inst, src1, src2)
                              THEN wrapping_add(pc, sext(imm, B_TYPE_IMM_BITWIDTH))
                              ELSE pc4),
                    NotHalted)
          [] inst = "ebreak" ->
                ClockResult("err", "Execute", [self EXCEPT !.running = FALSE],
                            [hit |-> TRUE, at |-> pc, code |-> reg_read(self.reg_file, 10)])
          [] inst = "ecall" -> ClockResult("panic", "todo ecall", self, NotHalted)
          [] inst \in {"mret", "sret"} -> ClockResult("panic", "todo", self, NotHalted)
          [] inst = "jal" ->
                ClockResult("ok", "",
                    [sc_commit(self, reg_write(self.reg_file, rd_, pc4), self.vm,
                               wrapping_add(pc, sext(imm, J_TYPE_IMM_BITWIDTH)))
                        EXCEPT !.callstack =
                                 CallStack_call(@, pc, wrapping_add(pc, sext(imm, J_TYPE_IMM_BITWIDTH)))],
                    NotHalted)
          [] inst = "jalr" ->
                jump(wrapping_add(src1, sext(imm, I_TYPE_IMM_BITWIDTH)))
          [] inst \in LoadOps ->
                load(wrapping_add(src1, sext(imm, I_TYPE_IMM_BITWIDTH)))
          [] inst \in StoreOps ->
                store(wrapping_add(src1, sext(imm, S_TYPE_IMM_BITWIDTH)))
          [] OTHER -> exec_inst_unknown(self)

\* CPU::exec_once of the single-cycle core.  The read of the word at pc is
\* a raw-pointer read: outside the buffer it is undefined behaviour.
exec_once(self) ==
    IF ~InRange(self.vm, self.pc, 32) THEN ClockResult("ub", "out of range", self, NotHalted)
    ELSE LET run(exec_internal) ==
               IF exec_internal.kind # "ok"
               THEN ClockResult(exec_internal.kind, exec_internal.err, self, NotHalted)
               ELSE exec_inst(self, exec_internal.val)
         IN  run(sc_decode(fetch_inst(self.vm, self.pc)))

(***************************************************************************)
(* The programs the model runs.  Each is an image: the code segment at the *)
(* entry point LdStart = 0x100, the data segment at 0x140.                 *)
(***************************************************************************)
Programs == <<
    \* read-after-write chains at distance 1 and 2, a write to x0, exit code 0
    [name |-> "ProgRaw",
     code |-> <<
        <<659, 80>>,  \* 0x100: 00500293  addi 5, 0, 5
        <<33555, 18>>,  \* 0x104: 00128313  addi 6, 5, 1
        <<33715, 98>>,  \* 0x108: 006283b3  add 7, 5, 6
        <<19, 144>>,  \* 0x10c: 00900013  addi 0, 0, 9
        <<1075, 112>>,  \* 0x110: 00700433  add 8, 0, 7
        <<1299, 0>>,  \* 0x114: 00000513  addi 10, 0, 0
        <<115, 16>>   \* 0x118: 00100073  ebreak 
     >>,
     data_vaddr |-> U(320),  \* 0x140
     data |-> <<>>,
     symbols |-> [a \in {} |-> "f"]],
    \* load-use, load feeding a store, store then load; exit code 0x140
    [name |-> "ProgLoadUse",
     code |-> <<
        <<1299, 5120>>,  \* 0x100: 14000513  addi 10, 0, 320
        <<12931, 5>>,  \* 0x104: 00053283  ld 5, 10, 0
        <<33555, 18>>,  \* 0x108: 00128313  addi 6, 5, 1
        <<13187, 5>>,  \* 0x10c: 00053383  ld 7, 10, 0
        <<13347, 117>>,  \* 0x110: 00753423  sd 7, 10, 8
        <<13315, 133>>,  \* 0x114: 00853403  ld 8, 10, 8
        <<115, 16>>   \* 0x118: 00100073  ebreak 
     >>,
     data_vaddr |-> U(320),  \* 0x140
     data |-> <<7, 1, 0, 0, 0, 0, 0, 128>>,
     symbols |-> [a \in {} |-> "f"]],
    \* a taken forward branch and a not-taken branch
    [name |-> "ProgBranch",
     code |-> <<
        <<1123, 0>>,  \* 0x100: 00000463  beq 0, 0, 8
        <<659, 16>>,  \* 0x104: 00100293  addi 5, 0, 1
        <<659, 32>>,  \* 0x108: 00200293  addi 5, 0, 2
        <<5219, 0>>,  \* 0x10c: 00001463  bne 0, 0, 8
        <<787, 48>>,  \* 0x110: 00300313  addi 6, 0, 3
        <<1299, 0>>,  \* 0x114: 00000513  addi 10, 0, 0
        <<115, 16>>   \* 0x118: 00100073  ebreak 
     >>,
     data_vaddr |-> U(320),  \* 0x140
     data |-> <<>>,
     symbols |-> [a \in {} |-> "f"]],
    \* a backward branch taken twice, then not taken
    [name |-> "ProgLoop",
     code |-> <<
        <<659, 48>>,  \* 0x100: 00300293  addi 5, 0, 3
        <<787, 19>>,  \* 0x104: 00130313  addi 6, 6, 1
        <<33427, 65522>>,  \* 0x108: fff28293  addi 5, 5, -1
        <<40163, 65026>>,  \* 0x10c: fe029ce3  bne 5, 0, -8
        <<1299, 0>>,  \* 0x110: 00000513  addi 10, 0, 0
        <<115, 16>>   \* 0x114: 00100073  ebreak 
     >>,
     data_vaddr |-> U(320),  \* 0x140
     data |-> <<>>,
     symbols |-> [a \in {} |-> "f"]],
    \* two calls of a leaf function that returns with ret; the function is a symbol
    [name |-> "ProgCall",
     code |-> <<
        <<239, 256>>,  \* 0x100: 010000ef  jal 1, 16
        <<239, 192>>,  \* 0x104: 00c000ef  jal 1, 12
        <<1299, 0>>,  \* 0x108: 00000513  addi 10, 0, 0
        <<115, 16>>,  \* 0x10c: 00100073  ebreak 
        <<33427, 18>>,  \* 0x110: 00128293  addi 5, 5, 1
        <<32871, 0>>   \* 0x114: 00008067  jalr 0, 1, 0
     >>,
     data_vaddr |-> U(320),  \* 0x140
     data |-> <<>>,
     symbols |-> [a \in {U(272)} |-> "f"]],
    \* an indirect jump executed twice with two different targets
    [name |-> "ProgJalr",
     code |-> <<
        <<659, 4352>>,  \* 0x100: 11000293  addi 5, 0, 272
        <<32871, 2>>,  \* 0x104: 00028067  jalr 0, 5, 0
        <<787, 16>>,  \* 0x108: 00100313  addi 6, 0, 1
        <<115, 16>>,  \* 0x10c: 00100073  ebreak 
        <<33683, 19>>,  \* 0x110: 00138393  addi 7, 7, 1
        <<659, 4224>>,  \* 0x114: 10800293  addi 5, 0, 264
        <<61551, 65247>>   \* 0x118: fedff06f  jal 0, -20
     >>,
     data_vaddr |-> U(320),  \* 0x140
     data |-> <<>>,
     symbols |-> [a \in {} |-> "f"]],
    \* a jal whose link register is read by the instruction behind it
    [name |-> "ProgJalStall",
     code |-> <<
        <<659, 16>>,  \* 0x100: 00100293  addi 5, 0, 1
        <<239, 192>>,  \* 0x104: 00c000ef  jal 1, 12
        <<33587, 80>>,  \* 0x108: 00508333  add 6, 1, 5
        <<787, 19>>,  \* 0x10c: 00130313  addi 6, 6, 1
        <<33715, 80>>,  \* 0x110: 005083b3  add 7, 1, 5
        <<34099, 16400>>,  \* 0x114: 40108533  sub 10, 1, 1
        <<115, 16>>   \* 0x118: 00100073  ebreak 
     >>,
     data_vaddr |-> U(320),  \* 0x140
     data |-> <<>>,
     symbols |-> [a \in {} |-> "f"]],
    \* a taken branch whose fall-through reads the register written just before it
    [name |-> "ProgBranchStall",
     code |-> <<
        <<659, 16>>,  \* 0x100: 00100293  addi 5, 0, 1
        <<1635, 0>>,  \* 0x104: 00000663  beq 0, 0, 12
        <<33587, 82>>,  \* 0x108: 00528333  add 6, 5, 5
        <<787, 19>>,  \* 0x10c: 00130313  addi 6, 6, 1
        <<33715, 82>>,  \* 0x110: 005283b3  add 7, 5, 5
        <<1299, 0>>,  \* 0x114: 00000513  addi 10, 0, 0
        <<115, 16>>   \* 0x118: 00100073  ebreak 
     >>,
     data_vaddr |-> U(320),  \* 0x140
     data |-> <<>>,
     symbols |-> [a \in {} |-> "f"]],
    \* div, its matching rem, and a mul
    [name |-> "ProgDivRem",
     code |-> <<
        <<659, 112>>,  \* 0x100: 00700293  addi 5, 0, 7
        <<787, 65504>>,  \* 0x104: ffe00313  addi 6, 0, -2
        <<50099, 610>>,  \* 0x108: 0262c3b3  div 7, 5, 6
        <<58419, 610>>,  \* 0x10c: 0262e433  rem 8, 5, 6
        <<33971, 610>>,  \* 0x110: 026284b3  mul 9, 5, 6
        <<1299, 0>>,  \* 0x114: 00000513  addi 10, 0, 0
        <<115, 16>>   \* 0x118: 00100073  ebreak 
     >>,
     data_vaddr |-> U(320),  \* 0x140
     data |-> <<>>,
     symbols |-> [a \in {} |-> "f"]],
    \* div by x0
    [name |-> "ProgZero_div",
     code |-> <<
        <<659, 112>>,  \* 0x100: 00700293  addi 5, 0, 7
        <<915, 48>>,  \* 0x104: 00300393  addi 7, 0, 3
        <<50099, 514>>,  \* 0x108: 0202c3b3  div 7, 5, 0
        <<1299, 0>>,  \* 0x10c: 00000513  addi 10, 0, 0
        <<115, 16>>   \* 0x110: 00100073  ebreak 
     >>,
     data_vaddr |-> U(320),  \* 0x140
     data |-> <<>>,
     symbols |-> [a \in {} |-> "f"]],
    \* divu by x0
    [name |-> "ProgZero_divu",
     code |-> <<
        <<659, 112>>,  \* 0x100: 00700293  addi 5, 0, 7
        <<915, 48>>,  \* 0x104: 00300393  addi 7, 0, 3
        <<54195, 514>>,  \* 0x108: 0202d3b3  divu 7, 5, 0
        <<1299, 0>>,  \* 0x10c: 00000513  addi 10, 0, 0
        <<115, 16>>   \* 0x110: 00100073  ebreak 
     >>,
     data_vaddr |-> U(320),  \* 0x140
     data |-> <<>>,
     symbols |-> [a \in {} |-> "f"]],
    \* divw by x0
    [name |-> "ProgZero_divw",
     code |-> <<
        <<659, 112>>,  \* 0x100: 00700293  addi 5, 0, 7
        <<915, 48>>,  \* 0x104: 00300393  addi 7, 0, 3
        <<50107, 514>>,  \* 0x108: 0202c3bb  divw 7, 5, 0
        <<1299, 0>>,  \* 0x10c: 00000513  addi 10, 0, 0
        <<115, 16>>   \* 0x110: 00100073  ebreak 
     >>,
     data_vaddr |-> U(320),  \* 0x140
     data |-> <<>>,
     symbols |-> [a \in {} |-> "f"]],
    \* divuw by x0
    [name |-> "ProgZero_divuw",
     code |-> <<
        <<659, 112>>,  \* 0x100: 00700293  addi 5, 0, 7
        <<915, 48>>,  \* 0x104: 00300393  addi 7, 0, 3
        <<54203, 514>>,  \* 0x108: 0202d3bb  divuw 7, 5, 0
        <<1299, 0>>,  \* 0x10c: 00000513  addi 10, 0, 0
        <<115, 16>>   \* 0x110: 00100073  ebreak 
     >>,
     data_vaddr |-> U(320),  \* 0x140
     data |-> <<>>,
     symbols |-> [a \in {} |-> "f"]],
    \* rem by x0
    [name |-> "ProgZero_rem",
     code |-> <<
        <<659, 112>>,  \* 0x100: 00700293  addi 5, 0, 7
        <<915, 48>>,  \* 0x104: 00300393  addi 7, 0, 3
        <<58291, 514>>,  \* 0x108: 0202e3b3  rem 7, 5, 0
        <<1299, 0>>,  \* 0x10c: 00000513  addi 10, 0, 0
        <<115, 16>>   \* 0x110: 00100073  ebreak 
     >>,
     data_vaddr |-> U(320),  \* 0x140
     data |-> <<>>,
     symbols |-> [a \in {} |-> "f"]],
    \* remu by x0
    [name |-> "ProgZero_remu",
     code |-> <<
        <<659, 112>>,  \* 0x100: 00700293  addi 5, 0, 7
        <<915, 48>>,  \* 0x104: 00300393  addi 7, 0, 3
        <<62387, 514>>,  \* 0x108: 0202f3b3  remu 7, 5, 0
        <<1299, 0>>,  \* 0x10c: 00000513  addi 10, 0, 0
        <<115, 16>>   \* 0x110: 00100073  ebreak 
     >>,
     data_vaddr |-> U(320),  \* 0x140
     data |-> <<>>,
     symbols |-> [a \in {} |-> "f"]],
    \* remw by x0
    [name |-> "ProgZero_remw",
     code |-> <<
        <<659, 112>>,  \* 0x100: 00700293  addi 5, 0, 7
        <<915, 48>>,  \* 0x104: 00300393  addi 7, 0, 3
        <<58299, 514>>,  \* 0x108: 0202e3bb  remw 7, 5, 0
        <<1299, 0>>,  \* 0x10c: 00000513  addi 10, 0, 0
        <<115, 16>>   \* 0x110: 00100073  ebreak 
     >>,
     data_vaddr |-> U(320),  \* 0x140
     data |-> <<>>,
     symbols |-> [a \in {} |-> "f"]],
    \* remuw by x0
    [name |-> "ProgZero_remuw",
     code |-> <<
        <<659, 112>>,  \* 0x100: 00700293  addi 5, 0, 7
        <<915, 48>>,  \* 0x104: 00300393  addi 7, 0, 3
        <<62395, 514>>,  \* 0x108: 0202f3bb  remuw 7, 5, 0
        <<1299, 0>>,  \* 0x10c: 00000513  addi 10, 0, 0
        <<115, 16>>   \* 0x110: 00100073  ebreak 
     >>,
     data_vaddr |-> U(320),  \* 0x140
     data |-> <<>>,
     symbols |-> [a \in {} |-> "f"]],
    \* divw by 2^32, whose low 32 bits are zero
    [name |-> "ProgLow32_divw",
     code |-> <<
        <<659, 112>>,  \* 0x100: 00700293  addi 5, 0, 7
        <<787, 16>>,  \* 0x104: 00100313  addi 6, 0, 1
        <<4883, 515>>,  \* 0x108: 02031313  slli 6, 6, 32
        <<50107, 610>>,  \* 0x10c: 0262c3bb  divw 7, 5, 6
        <<1299, 0>>,  \* 0x110: 00000513  addi 10, 0, 0
        <<115, 16>>   \* 0x114: 00100073  ebreak 
     >>,
     data_vaddr |-> U(320),  \* 0x140
     data |-> <<>>,
     symbols |-> [a \in {} |-> "f"]],
    \* divuw by 2^32, whose low 32 bits are zero
    [name |-> "ProgLow32_divuw",
     code |-> <<
        <<659, 112>>,  \* 0x100: 00700293  addi 5, 0, 7
        <<787, 16>>,  \* 0x104: 00100313  addi 6, 0, 1
        <<4883, 515>>,  \* 0x108: 02031313  slli 6, 6, 32
        <<54203, 610>>,  \* 0x10c: 0262d3bb  divuw 7, 5, 6
        <<1299, 0>>,  \* 0x110: 00000513  addi 10, 0, 0
        <<115, 16>>   \* 0x114: 00100073  ebreak 
     >>,
     data_vaddr |-> U(320),  \* 0x140
     data |-> <<>>,
     symbols |-> [a \in {} |-> "f"]],
    \* remw by 2^32, whose low 32 bits are zero
    [name |-> "ProgLow32_remw",
     code |-> <<
        <<659, 112>>,  \* 0x100: 00700293  addi 5, 0, 7
        <<787, 16>>,  \* 0x104: 00100313  addi 6, 0, 1
        <<4883, 515>>,  \* 0x108: 02031313  slli 6, 6, 32
        <<58299, 610>>,  \* 0x10c: 0262e3bb  remw 7, 5, 6
        <<1299, 0>>,  \* 0x110: 00000513  addi 10, 0, 0
        <<115, 16>>   \* 0x114: 00100073  ebreak 
     >>,
     data_vaddr |-> U(320),  \* 0x140
     data |-> <<>>,
     symbols |-> [a \in {} |-> "f"]],
    \* remuw by 2^32, whose low 32 bits are zero
    [name |-> "ProgLow32_remuw",
     code |-> <<
        <<659, 112>>,  \* 0x100: 00700293  addi 5, 0, 7
        <<787, 16>>,  \* 0x104: 00100313  addi 6, 0, 1
        <<4883, 515>>,  \* 0x108: 02031313  slli 6, 6, 32
        <<62395, 610>>,  \* 0x10c: 0262f3bb  remuw 7, 5, 6
        <<1299, 0>>,  \* 0x110: 00000513  addi 10, 0, 0
        <<115, 16>>   \* 0x114: 00100073  ebreak 
     >>,
     data_vaddr |-> U(320),  \* 0x140
     data |-> <<>>,
     symbols |-> [a \in {} |-> "f"]],
    \* an OP word with funct7 = 0x7f, which no decoder knows
    [name |-> "ProgUnknownFunct",
     code |-> <<
        <<659, 16>>,  \* 0x100: 00100293  addi 5, 0, 1
        <<691, 65024>>,  \* 0x104: fe0002b3  word 4261413555
        <<1299, 0>>,  \* 0x108: 00000513  addi 10, 0, 0
        <<115, 16>>   \* 0x10c: 00100073  ebreak 
     >>,
     data_vaddr |-> U(320),  \* 0x140
     data |-> <<>>,
     symbols |-> [a \in {} |-> "f"]],
    \* a word whose opcode 0x7f is in no table
    [name |-> "ProgUnknownOpcode",
     code |-> <<
        <<659, 16>>,  \* 0x100: 00100293  addi 5, 0, 1
        <<127, 0>>,  \* 0x104: 0000007f  word 127
        <<1299, 0>>,  \* 0x108: 00000513  addi 10, 0, 0
        <<115, 16>>   \* 0x10c: 00100073  ebreak 
     >>,
     data_vaddr |-> U(320),  \* 0x140
     data |-> <<>>,
     symbols |-> [a \in {} |-> "f"]],
    \* a store and a division by zero placed behind the ebreak
    [name |-> "ProgAfterEbreak",
     code |-> <<
        <<659, 16>>,  \* 0x100: 00100293  addi 5, 0, 1
        <<1299, 0>>,  \* 0x104: 00000513  addi 10, 0, 0
        <<115, 16>>,  \* 0x108: 00100073  ebreak 
        <<12323, 5200>>,  \* 0x10c: 14503023  sd 5, 0, 320
        <<49971, 514>>   \* 0x110: 0202c333  div 6, 5, 0
     >>,
     data_vaddr |-> U(320),  \* 0x140
     data |-> <<>>,
     symbols |-> [a \in {} |-> "f"]],
    \* a loop closed by a ret whose target comes from a table; the bltu at 0x114
    \* jumps to its own fall-through, and the table makes it not taken, not taken,
    \* taken, taken, taken, not taken, taken, not taken, not taken
    [name |-> "ProgSmith",
     code |-> <<
        <<1171, 5120>>,  \* 0x100: 14000493  addi 9, 0, 320
        <<1043, 4240>>,  \* 0x104: 10900413  addi 8, 0, 265
        <<53379, 4>>,  \* 0x108: 0004d083  lhu 1, 9, 0
        <<33939, 36>>,  \* 0x10c: 00248493  addi 9, 9, 2
        <<111, 64>>,  \* 0x110: 0040006f  jal 0, 4
        <<57955, 128>>,  \* 0x114: 0080e263  bltu 1, 8, 4
        <<32871, 0>>,  \* 0x118: 00008067  jalr 0, 1, 0
        <<1299, 0>>,  \* 0x11c: 00000513  addi 10, 0, 0
        <<115, 16>>   \* 0x120: 00100073  ebreak 
     >>,
     data_vaddr |-> U(320),  \* 0x140
     data |-> <<9, 1, 9, 1, 8, 1, 8, 1, 8, 1, 9, 1, 8, 1, 9, 1, 28, 1>>,
     symbols |-> [a \in {} |-> "f"]],
    \* the empty straight-line program: the ebreak alone
    [name |-> "ProgAddi0",
     code |-> <<
        <<115, 16>>   \* 0x100: 00100073  ebreak 
     >>,
     data_vaddr |-> U(320),  \* 0x140
     data |-> <<>>,
     symbols |-> [a \in {} |-> "f"]],
    \* one addi and the ebreak
    [name |-> "ProgAddi1",
     code |-> <<
        <<1299, 0>>,  \* 0x100: 00000513  addi 10, 0, 0
        <<115, 16>>   \* 0x104: 00100073  ebreak 
     >>,
     data_vaddr |-> U(320),  \* 0x140
     data |-> <<>>,
     symbols |-> [a \in {} |-> "f"]],
    \* two independent addi and the ebreak
    [name |-> "ProgAddi2",
     code |-> <<
        <<659, 16>>,  \* 0x100: 00100293  addi 5, 0, 1
        <<1299, 0>>,  \* 0x104: 00000513  addi 10, 0, 0
        <<115, 16>>   \* 0x108: 00100073  ebreak 
     >>,
     data_vaddr |-> U(320),  \* 0x140
     data |-> <<>>,
     symbols |-> [a \in {} |-> "f"]],
    \* five addi without a dependence within reach of the pipeline, one of them the
    \* canonical nop, one reading a register written four instructions earlier
    [name |-> "ProgAddi5",
     code |-> <<
        <<659, 16>>,  \* 0x100: 00100293  addi 5, 0, 1
        <<19, 0>>,  \* 0x104: 00000013  addi 0, 0, 0
        <<33555, 35>>,  \* 0x108: 00238313  addi 6, 7, 2
        <<1299, 0>>,  \* 0x10c: 00000513  addi 10, 0, 0
        <<33811, 50>>,  \* 0x110: 00328413  addi 8, 5, 3
        <<115, 16>>   \* 0x114: 00100073  ebreak 
     >>,
     data_vaddr |-> U(320),  \* 0x140
     data |-> <<>>,
     symbols |-> [a \in {} |-> "f"]],
    \* a div that overwrites its own rs1, followed by the matching rem on the same
    \* register numbers: the rem reads the quotient
    [name |-> "ProgRemDep",
     code |-> <<
        <<659, 112>>,  \* 0x100: 00700293  addi 5, 0, 7
        <<787, 32>>,  \* 0x104: 00200313  addi 6, 0, 2
        <<19, 0>>,  \* 0x108: 00000013  addi 0, 0, 0
        <<19, 0>>,  \* 0x10c: 00000013  addi 0, 0, 0
        <<49843, 610>>,  \* 0x110: 0262c2b3  div 5, 5, 6
        <<58419, 610>>,  \* 0x114: 0262e433  rem 8, 5, 6
        <<1299, 0>>,  \* 0x118: 00000513  addi 10, 0, 0
        <<115, 16>>   \* 0x11c: 00100073  ebreak 
     >>,
     data_vaddr |-> U(320),  \* 0x140
     data |-> <<>>,
     symbols |-> [a \in {} |-> "f"]],
    \* the unsigned and word pairs, each rem right behind its div on the same registers
    [name |-> "ProgRemPairs",
     code |-> <<
        <<659, 112>>,  \* 0x100: 00700293  addi 5, 0, 7
        <<787, 32>>,  \* 0x104: 00200313  addi 6, 0, 2
        <<54195, 610>>,  \* 0x108: 0262d3b3  divu 7, 5, 6
        <<62515, 610>>,  \* 0x10c: 0262f433  remu 8, 5, 6
        <<50619, 610>>,  \* 0x110: 0262c5bb  divw 11, 5, 6
        <<58939, 610>>,  \* 0x114: 0262e63b  remw 12, 5, 6
        <<54971, 610>>,  \* 0x118: 0262d6bb  divuw 13, 5, 6
        <<63291, 610>>,  \* 0x11c: 0262f73b  remuw 14, 5, 6
        <<1299, 0>>,  \* 0x120: 00000513  addi 10, 0, 0
        <<115, 16>>   \* 0x124: 00100073  ebreak 
     >>,
     data_vaddr |-> U(320),  \* 0x140
     data |-> <<>>,
     symbols |-> [a \in {} |-> "f"]],
    \* a rem behind a div of another kind, behind a div on swapped registers, and
    \* behind a matching div with another instruction in between
    [name |-> "ProgRemMismatch",
     code |-> <<
        <<659, 112>>,  \* 0x100: 00700293  addi 5, 0, 7
        <<787, 32>>,  \* 0x104: 00200313  addi 6, 0, 2
        <<50099, 610>>,  \* 0x108: 0262c3b3  div 7, 5, 6
        <<62515, 610>>,  \* 0x10c: 0262f433  remu 8, 5, 6
        <<50619, 610>>,  \* 0x110: 0262c5bb  divw 11, 5, 6
        <<26171, 595>>,  \* 0x114: 0253663b  remw 12, 6, 5
        <<54963, 610>>,  \* 0x118: 0262d6b3  divu 13, 5, 6
        <<19, 0>>,  \* 0x11c: 00000013  addi 0, 0, 0
        <<63283, 610>>,  \* 0x120: 0262f733  remu 14, 5, 6
        <<1299, 0>>,  \* 0x124: 00000513  addi 10, 0, 0
        <<115, 16>>   \* 0x128: 00100073  ebreak 
     >>,
     data_vaddr |-> U(320),  \* 0x140
     data |-> <<>>,
     symbols |-> [a \in {} |-> "f"]],
    \* the high products of -1 and 1: x5 = -1 = 2^64 - 1, x6 = 1
    [name |-> "ProgMulhNeg",
     code |-> <<
        <<659, 65520>>,  \* 0x100: fff00293  addi 5, 0, -1
        <<787, 16>>,  \* 0x104: 00100313  addi 6, 0, 1
        <<37811, 610>>,  \* 0x108: 026293b3  mulh 7, 5, 6
        <<46131, 610>>,  \* 0x10c: 0262b433  mulhu 8, 5, 6
        <<42163, 610>>,  \* 0x110: 0262a4b3  mulhsu 9, 5, 6
        <<9651, 595>>,  \* 0x114: 025325b3  mulhsu 11, 6, 5
        <<38451, 594>>,  \* 0x118: 02529633  mulh 12, 5, 5
        <<46771, 594>>,  \* 0x11c: 0252b6b3  mulhu 13, 5, 5
        <<42803, 594>>,  \* 0x120: 0252a733  mulhsu 14, 5, 5
        <<1299, 0>>,  \* 0x124: 00000513  addi 10, 0, 0
        <<115, 16>>   \* 0x128: 00100073  ebreak 
     >>,
     data_vaddr |-> U(320),  \* 0x140
     data |-> <<>>,
     symbols |-> [a \in {} |-> "f"]],
    \* the high products of the extremes: x5 = 2^63 (the least i64), x6 = 2^63 - 1
    \* (the greatest i64), x15 = 3
    [name |-> "ProgMulhBig",
     code |-> <<
        <<659, 16>>,  \* 0x100: 00100293  addi 5, 0, 1
        <<37523, 1010>>,  \* 0x104: 03f29293  slli 5, 5, 63
        <<787, 65520>>,  \* 0x108: fff00313  addi 6, 0, -1
        <<21267, 19>>,  \* 0x10c: 00135313  srli 6, 6, 1
        <<1939, 48>>,  \* 0x110: 00300793  addi 15, 0, 3
        <<37811, 610>>,  \* 0x114: 026293b3  mulh 7, 5, 6
        <<46131, 610>>,  \* 0x118: 0262b433  mulhu 8, 5, 6
        <<42163, 610>>,  \* 0x11c: 0262a4b3  mulhsu 9, 5, 6
        <<5555, 611>>,  \* 0x120: 026315b3  mulh 11, 6, 6
        <<38451, 754>>,  \* 0x124: 02f29633  mulh 12, 5, 15
        <<46771, 754>>,  \* 0x128: 02f2b6b3  mulhu 13, 5, 15
        <<42803, 599>>,  \* 0x12c: 0257a733  mulhsu 14, 15, 5
        <<38963, 594>>,  \* 0x130: 02529833  mulh 16, 5, 5
        <<1299, 0>>,  \* 0x134: 00000513  addi 10, 0, 0
        <<115, 16>>   \* 0x138: 00100073  ebreak 
     >>,
     data_vaddr |-> U(320),  \* 0x140
     data |-> <<>>,
     symbols |-> [a \in {} |-> "f"]],
    \* slliw x6, x5, 3 with instruction bit 25 set
    [name |-> "ProgSlliw25",
     code |-> <<
        <<659, 16>>,  \* 0x100: 00100293  addi 5, 0, 1
        <<37659, 562>>,  \* 0x104: 0232931b  word 36868891
        <<1299, 0>>,  \* 0x108: 00000513  addi 10, 0, 0
        <<115, 16>>   \* 0x10c: 00100073  ebreak 
     >>,
     data_vaddr |-> U(320),  \* 0x140
     data |-> <<>>,
     symbols |-> [a \in {} |-> "f"]],
    \* srliw x6, x5, 3 with instruction bit 25 set
    [name |-> "ProgSrliw25",
     code |-> <<
        <<659, 65408>>,  \* 0x100: ff800293  addi 5, 0, -8
        <<54043, 562>>,  \* 0x104: 0232d31b  word 36885275
        <<1299, 0>>,  \* 0x108: 00000513  addi 10, 0, 0
        <<115, 16>>   \* 0x10c: 00100073  ebreak 
     >>,
     data_vaddr |-> U(320),  \* 0x140
     data |-> <<>>,
     symbols |-> [a \in {} |-> "f"]],
    \* sraiw x6, x5, 3 with instruction bit 25 set
    [name |-> "ProgSraiw25",
     code |-> <<
        <<659, 65408>>,  \* 0x100: ff800293  addi 5, 0, -8
        <<54043, 16946>>,  \* 0x104: 4232d31b  word 1110627099
        <<1299, 0>>,  \* 0x108: 00000513  addi 10, 0, 0
        <<115, 16>>   \* 0x10c: 00100073  ebreak 
     >>,
     data_vaddr |-> U(320),  \* 0x140
     data |-> <<>>,
     symbols |-> [a \in {} |-> "f"]],
    \* lui x7, 0xFFFFF; srli x8, x7, 12
    [name |-> "ProgLuiSrli",
     code |-> <<
        <<62391, 65535>>,  \* 0x100: fffff3b7  lui 7, 1048575
        <<54291, 195>>,  \* 0x104: 00c3d413  srli 8, 7, 12
        <<1299, 0>>,  \* 0x108: 00000513  addi 10, 0, 0
        <<115, 16>>   \* 0x10c: 00100073  ebreak 
     >>,
     data_vaddr |-> U(320),  \* 0x140
     data |-> <<>>,
     symbols |-> [a \in {} |-> "f"]],
    \* a csrrw, which decodes and has no execution rule in the single-cycle core
    [name |-> "ProgCsr",
     code |-> <<
        <<659, 16>>,  \* 0x100: 00100293  addi 5, 0, 1
        <<37747, 12290>>,  \* 0x104: 30029373  csrrw 6, 768, 5
        <<915, 32>>,  \* 0x108: 00200393  addi 7, 0, 2
        <<1299, 0>>,  \* 0x10c: 00000513  addi 10, 0, 0
        <<115, 16>>   \* 0x110: 00100073  ebreak 
     >>,
     data_vaddr |-> U(320),  \* 0x140
     data |-> <<>>,
     symbols |-> [a \in {} |-> "f"]],
    \* a ret on the empty call stack, a call of an address that is no symbol, jumps
    \* with rd = x0 and rd = x5 to symbols, and a call behind the ebreak
    [name |-> "ProgTrace",
     code |-> <<
        <<147, 4224>>,  \* 0x100: 10800093  addi 1, 0, 264
        <<32871, 0>>,  \* 0x104: 00008067  jalr 0, 1, 0
        <<239, 128>>,  \* 0x108: 008000ef  jal 1, 8
        <<19, 0>>,  \* 0x10c: 00000013  addi 0, 0, 0
        <<111, 128>>,  \* 0x110: 0080006f  jal 0, 8
        <<19, 0>>,  \* 0x114: 00000013  addi 0, 0, 0
        <<751, 128>>,  \* 0x118: 008002ef  jal 5, 8
        <<19, 0>>,  \* 0x11c: 00000013  addi 0, 0, 0
        <<1299, 0>>,  \* 0x120: 00000513  addi 10, 0, 0
        <<115, 16>>,  \* 0x124: 00100073  ebreak 
        <<61679, 65311>>   \* 0x128: ff1ff0ef  jal 1, -16
     >>,
     data_vaddr |-> U(320),  \* 0x140
     data |-> <<>>,
     symbols |-> [a \in {U(280), U(288)} |-> "f"]],
    \* two writes of x5 in flight before a read of x5, a read of x6 two instructions
    \* behind its write, and an ebreak word whose rd field is 5 between a write of
    \* x5 and a read of x5
    [name |-> "ProgEbreakRd",
     code |-> <<
        <<1299, 0>>,  \* 0x100: 00000513  addi 10, 0, 0
        <<659, 16>>,  \* 0x104: 00100293  addi 5, 0, 1
        <<33427, 18>>,  \* 0x108: 00128293  addi 5, 5, 1
        <<33427, 18>>,  \* 0x10c: 00128293  addi 5, 5, 1
        <<787, 112>>,  \* 0x110: 00700313  addi 6, 0, 7
        <<19, 0>>,  \* 0x114: 00000013  addi 0, 0, 0
        <<915, 19>>,  \* 0x118: 00130393  addi 7, 6, 1
        <<659, 112>>,  \* 0x11c: 00700293  addi 5, 0, 7
        <<755, 16>>,  \* 0x120: 001002f3  word 1049331
        <<33555, 18>>,  \* 0x124: 00128313  addi 6, 5, 1
        <<19, 0>>   \* 0x128: 00000013  addi 0, 0, 0
     >>,
     data_vaddr |-> U(320),  \* 0x140
     data |-> <<>>,
     symbols |-> [a \in {} |-> "f"]],
    \* an indirect jump executed twice with two different targets: first to a store
    \* of x5, then to a load of the stored doubleword
    [name |-> "ProgJalrStore",
     code |-> <<
        <<659, 4416>>,  \* 0x100: 11400293  addi 5, 0, 276
        <<32871, 2>>,  \* 0x104: 00028067  jalr 0, 5, 0
        <<13315, 5120>>,  \* 0x108: 14003403  ld 8, 0, 320
        <<1299, 0>>,  \* 0x10c: 00000513  addi 10, 0, 0
        <<115, 16>>,  \* 0x110: 00100073  ebreak 
        <<12323, 5200>>,  \* 0x114: 14503023  sd 5, 0, 320
        <<659, 4224>>,  \* 0x118: 10800293  addi 5, 0, 264
        <<61551, 65183>>   \* 0x11c: fe9ff06f  jal 0, -24
     >>,
     data_vaddr |-> U(320),  \* 0x140
     data |-> <<>>,
     symbols |-> [a \in {} |-> "f"]],
    \* two calls of a function whose ret is fetched while a load-use hazard holds the PC
    [name |-> "ProgRetStall",
     code |-> <<
        <<239, 256>>,  \* 0x100: 010000ef  jal 1, 16
        <<239, 192>>,  \* 0x104: 00c000ef  jal 1, 12
        <<1299, 0>>,  \* 0x108: 00000513  addi 10, 0, 0
        <<115, 16>>,  \* 0x10c: 00100073  ebreak 
        <<12931, 5120>>,  \* 0x110: 14003283  ld 5, 0, 320
        <<33555, 18>>,  \* 0x114: 00128313  addi 6, 5, 1
        <<32871, 0>>   \* 0x118: 00008067  jalr 0, 1, 0
     >>,
     data_vaddr |-> U(320),  \* 0x140
     data |-> <<7, 0, 0, 0, 0, 0, 0, 0>>,
     symbols |-> [a \in {U(272)} |-> "f"]],
    \* a load into x0 followed by instructions that read x0
    [name |-> "ProgLoadZero",
     code |-> <<
        <<12291, 5120>>,  \* 0x100: 14003003  ld 0, 0, 320
        <<659, 16>>,  \* 0x104: 00100293  addi 5, 0, 1
        <<819, 0>>,  \* 0x108: 00000333  add 6, 0, 0
        <<1299, 0>>,  \* 0x10c: 00000513  addi 10, 0, 0
        <<115, 16>>   \* 0x110: 00100073  ebreak 
     >>,
     data_vaddr |-> U(320),  \* 0x140
     data |-> <<7, 0, 0, 0, 0, 0, 0, 0>>,
     symbols |-> [a \in {} |-> "f"]]
    >>

(***************************************************************************)
(* The state machine.  One program image is loaded into two machines with  *)
(* their own memories: the single-cycle CPU runs cpu_exec first, then the  *)
(* pipelined CPU runs cpu_exec with the same step budget.                  *)
(***************************************************************************)
VARIABLES
    info,       \* the loaded program image
    steps,      \* the argument of cpu_exec: None or Some(n)
    sc_cpu,     \* the single-cycle CPU struct
    sc_frame,   \* the call of single_cycle cpu_exec: position, i, Result
    sc_trace,   \* the PCs the single-cycle CPU traced, one per exec_inst
    cpu,        \* the pipelined CPU struct
    frame,      \* the call of multi_stage cpu_exec: position, i, Result
    log,        \* the pipeline trace: the latches after each completed clock
    unit        \* a direct call of one function: its arguments and its result

vars == <<info, steps, sc_cpu, sc_frame, sc_trace, cpu, frame, log, unit>>

None == [some |-> FALSE, n |-> 0]

Some(n) == [some |-> TRUE, n |-> n]

\* single_cycle CPU::new followed by init_elfinfo_64
SC_new(image) ==
    [running |-> FALSE, reg_file |-> RegisterFile_empty, pc |-> LdStart,
     vm |-> from_elf_info(image), callstack |-> CallStack_new(image.symbols)]

\* multi_stage CPU::new followed by init_elfinfo_64
CPU_new(image, data_hazard_policy, control_policy, predict_policy) ==
    [running |-> FALSE, clock |-> 0,
     reg_file |-> RegisterFile_empty, pc |-> LdStart, vm |-> from_elf_info(image),
     itl_f_d |-> [InternalFetchDecode_default EXCEPT !.pc = LdStart],
     itl_d_e |-> [InternalDecodeExec_default EXCEPT !.pc = LdStart],
     itl_e_m |-> [InternalExecMem_default EXCEPT !.pc = LdStart],
     itl_m_w |-> [InternalMemWb_default EXCEPT !.pc = LdStart],
     m_w_pipeline_states |-> AllNormal, e_m_pipeline_states |-> AllNormal,
     d_e_pipeline_states |-> AllNormal, f_d_pipeline_states |-> AllNormal,
     pc_next_states |-> AllNormal,
     data_hazard_policy |-> data_hazard_policy, control_policy |-> control_policy,
     predict_policy |-> predict_policy,
     cpu_statistics |-> [data_hazard_count |-> 0, control_hazard_count |-> 0,
                         data_hazard_delayed_cycles |-> 0,
                         control_hazard_delayed_cycles |-> 0,
                         executed_inst_count |-> 0],
     bht |-> <<>>, btb |-> <<>>, ras |-> <<>>,
     callstack |-> CallStack_new(image.symbols)]

\* a call of cpu_exec that has not started
FrameIdle == [pos |-> "idle", i |-> 0, result |-> "none", err |-> "", halted |-> NotHalted]

\* what the hazard unit and EX traced in the clock that starts in self: the
\* PC stall a hazard asked for, the operands the ALU received, whether the
\* PC EX decided differs from the predicted one, and the PC EX decided
exec_info(self) ==
    LET hz == hazard_unit(self.data_hazard_policy, self.itl_f_d, self.itl_d_e,
                          self.itl_e_m, self.itl_m_w, self.d_e_pipeline_states,
                          self.f_d_pipeline_states, self.pc_next_states)
        of(ex) ==
          [pc_stall |-> \/ hz.pc_s[1] = "Stall"
                        \/ (hz.load_use /\ self.data_hazard_policy = "DataForward"),
           src1 |-> exec_src1(hz.itl_d_e), src2 |-> exec_src2(hz.itl_d_e),
           mispredict |-> clock_mispredict(ex.val.itl_e_m, ex.val.new_pc_1),
           decided_pc |-> IF ex.val.itl_e_m.branch_flags.pc_src
                          THEN ex.val.new_pc_1 ELSE ex.val.new_pc_0]
    IN  of(exec(hz.itl_d_e))

\* the latches and the PC traced at the end of a clock, with EX's trace
post_pipeline_info(self, ex_info) ==
    [pc |-> self.pc, itl_f_d |-> self.itl_f_d, itl_d_e |-> self.itl_d_e,
     itl_e_m |-> self.itl_e_m, itl_m_w |-> self.itl_m_w, ex |-> ex_info]

\* no direct call: the state of `unit` in every run of the two cores
NoUnit ==
    [fn |-> "none", op |-> "", a |-> Zero64, b |-> Zero64, n |-> 0,
     done |-> FALSE, out |-> [kind |-> "none"]]

Init ==
    /\ info \in {Programs[k] : k \in 1..Len(Programs)}
    /\ steps \in {None, Some(-1), Some(0), Some(3), Some(8)}
    /\ sc_cpu = SC_new(info)
    /\ sc_frame = FrameIdle
    /\ \E dh \in {"NaiveStall", "DataForward"},
          cp \in {<<"AlwaysNotTaken", "None">>,
                  <<"DynamicPredict", "OneBitPredict">>,
                  <<"DynamicPredict", "TwoBitsPredict">>} :
          cpu = CPU_new(info, dh, cp[1], cp[2])
    /\ frame = FrameIdle
    /\ sc_trace = <<>>
    /\ log = <<post_pipeline_info(cpu, [pc_stall |-> FALSE, src1 |-> Zero64,
                                          src2 |-> Zero64, mispredict |-> FALSE,
                                          decided_pc |-> Zero64])>>
    /\ unit = NoUnit

\* a budget test that lets one more iteration through
steps_exhausted_late(st, i) == st.some /\ i > st.n

\* the budget test at the head of the loop: steps.is_some_and(|n| i >= n)
steps_exhausted(st, i) == st.some /\ i >= st.n

\* the frame after one loop body returned r
frame_after(fr, r) ==
    [pos |-> IF r.kind = "ok" THEN "loop" ELSE "returned",
     i |-> IF r.kind = "ok" THEN fr.i + 1 ELSE fr.i,
     result |-> CASE r.kind = "ok" -> "none"
                  [] r.kind = "err" -> "Err"
                  [] OTHER -> r.kind,
     err |-> r.err,
     halted |-> IF r.halted.hit THEN r.halted ELSE fr.halted]

\* single_cycle cpu_exec: entry
SC_cpu_exec ==
    /\ sc_frame.pos = "idle"
    /\ sc_cpu' = [sc_cpu EXCEPT !.running = TRUE]
    /\ sc_frame' = [sc_frame EXCEPT !.pos = "loop"]
    /\ UNCHANGED <<info, steps, sc_trace, cpu, frame, log, unit>>

\* single_cycle cpu_exec: one iteration of the loop, exec_once()?
SC_exec_once ==
    /\ sc_frame.pos = "loop"
    /\ sc_cpu.running
    /\ ~steps_exhausted(steps, sc_frame.i)
    /\ sc_frame.i < MaxIter
    /\ \E r \in {exec_once(sc_cpu)} :
           /\ sc_cpu' = r.cpu
           /\ sc_frame' = frame_after(sc_frame, r)
    /\ sc_trace' = Append(sc_trace, sc_cpu.pc)
    /\ UNCHANGED <<info, steps, cpu, frame, log, unit>>

\* single_cycle cpu_exec: the loop ends, Ok(())
SC_cpu_exec_return ==
    /\ sc_frame.pos = "loop"
    /\ (~sc_cpu.running \/ steps_exhausted(steps, sc_frame.i))
    /\ sc_frame' = [sc_frame EXCEPT !.pos = "returned", !.result = "Ok"]
    /\ UNCHANGED <<info, steps, sc_cpu, sc_trace, cpu, frame, log, unit>>

\* multi_stage cpu_exec: entry
CPU_cpu_exec ==
    /\ (sc_frame.pos = "returned" \/ sc_frame.i >= MaxIter)
    /\ frame.pos = "idle"
    /\ cpu' = [cpu EXCEPT !.running = TRUE]
    /\ frame' = [frame EXCEPT !.pos = "loop"]
    /\ UNCHANGED <<info, steps, sc_cpu, sc_frame, sc_trace, log, unit>>

\* multi_stage cpu_exec: one iteration of the loop, clock()?
CPU_clock ==
    /\ frame.pos = "loop"
    /\ cpu.running
    /\ ~steps_exhausted(steps, frame.i)
    /\ frame.i < MaxIter
    /\ \E r \in {clock(cpu)} :
           /\ cpu' = r.cpu
           /\ frame' = frame_after(frame, r)
           /\ log' = IF r.kind = "ok"
                     THEN Append(log, post_pipeline_info(r.cpu, exec_info(cpu)))
                     ELSE log
    /\ UNCHANGED <<info, steps, sc_cpu, sc_frame, sc_trace, unit>>

\* multi_stage cpu_exec: the loop ends, Ok(())
CPU_cpu_exec_return ==
    /\ frame.pos = "loop"
    /\ (~cpu.running \/ steps_exhausted(steps, frame.i))
    /\ frame' = [frame EXCEPT !.pos = "returned", !.result = "Ok"]
    /\ UNCHANGED <<info, steps, sc_cpu, sc_frame, sc_trace, cpu, log, unit>>

Next ==
    \/ SC_cpu_exec
    \/ SC_exec_once
    \/ SC_cpu_exec_return
    \/ CPU_cpu_exec
    \/ CPU_clock
    \/ CPU_cpu_exec_return

Spec == Init /\ [][Next]_vars

(***************************************************************************)
(* Direct calls.  A second specification calls one function of the program *)
(* on arguments drawn from a set of edge values and keeps the result in    *)
(* `unit`; the two cores stay in their initial state.                      *)
(***************************************************************************)
UnitCall(fn, op, a, b, n) ==
    [fn |-> fn, op |-> op, a |-> a, b |-> b, n |-> n,
     done |-> FALSE, out |-> [kind |-> "none"]]

\* register values around the 32-bit and 64-bit sign boundaries: 0, 1, 2, 7,
\* -7, -1, 2^31 - 1, 2^31, -2^31, 2^32 - 7 and 2^32 + 3
WordOperands ==
    {Zero64, U(1), U(2), U(7), <<65529, 65535, 65535, 65535>>,
     <<65535, 65535, 65535, 65535>>, <<65535, 32767, 0, 0>>, <<0, 32768, 0, 0>>,
     <<0, 32768, 65535, 65535>>, <<65529, 65535, 0, 0>>, <<3, 0, 1, 0>>}

\* the -W instructions on two registers, on a 12-bit immediate field, and on
\* a shift amount
AluWCalls ==
    {UnitCall("alu_w", op, a, b, 0) :
        op \in {"addw", "subw", "mulw", "divw", "divuw", "remw", "remuw",
                "sllw", "srlw", "sraw"},
        a \in WordOperands, b \in WordOperands}
    \cup {UnitCall("alu_w", "addiw", a, U(i), 0) :
            a \in WordOperands, i \in {0, 1, 2047, 2048, 4095}}
    \cup {UnitCall("alu_w", op, a, U(sh), 0) :
            op \in {"slliw", "srliw", "sraiw"}, a \in WordOperands, sh \in {0, 1, 31}}

\* the widths sext accepts (its assertion is bit_width < 64) and values with
\* both signs at the narrow and the wide widths, with and without bits above
\* the field
SextWidths == 1..63

SextOperands ==
    {Zero64, <<65535, 65535, 65535, 65535>>, U(29), U(13), U(15710), U(13662),
     <<0, 32768, 0, 0>>, <<65535, 32767, 0, 0>>, <<0, 0, 0, 16384>>,
     <<65535, 65535, 65535, 49151>>, <<43690, 21845, 43690, 21845>>,
     <<21845, 43690, 21845, 43690>>}

SextCalls == {UnitCall("sext", "", x, Zero64, n) : x \in SextOperands, n \in SextWidths}

\* values to store: both signs at each width, with and without bits above it
MemOperands ==
    {Zero64, <<65535, 65535, 65535, 65535>>, U(128), U(127), U(32768), U(32767),
     <<0, 32768, 0, 0>>, <<65535, 32767, 0, 0>>, <<0, 0, 0, 32768>>,
     <<4660, 22136, 39612, 57072>>, <<33153, 33667, 34181, 34695>>}

\* the loads with the width they read, and offsets into the image up to its
\* last byte
LoadWidths ==
    {<<"lb", 8>>, <<"lbu", 8>>, <<"lh", 16>>, <<"lhu", 16>>, <<"lw", 32>>, <<"lwu", 32>>,
     <<"ld", 64>>}

MemOffsets == {64, 65, 66, 68, 72, 88, 92, 94, 95}

\* a store of unit.a at the address unit.b and a load of the same width
\* from it: the address is inside the image and aligned to the width
StoreLoadCalls ==
    {c \in {UnitCall("store_load", p[1], v, U(256 + off), p[2]) :
                p \in LoadWidths, v \in MemOperands, off \in MemOffsets} :
        /\ c.b[1] % (c.n \div 8) = 0
        /\ (c.b[1] - 256) + (c.n \div 8) <= MemSize}

\* the register file of the tests of reg.rs: every register holds its index
demo_reg_file == [r \in 0..31 |-> U(r)]

\* a write of unit.a to register unit.n of the empty or of the demo file
RegCalls ==
    {UnitCall("reg", f, v, Zero64, i) :
        f \in {"empty", "demo"}, i \in 0..31,
        v \in {Zero64, U(1), U(65535), <<65535, 65535, 65535, 65535>>, <<0, 0, 0, 32768>>}}

UnitCalls == AluWCalls \cup SextCalls \cup StoreLoadCalls \cup RegCalls

UnitInit ==
    /\ info = Programs[1]
    /\ steps = None
    /\ sc_cpu = SC_new(info)
    /\ sc_frame = FrameIdle
    /\ cpu = CPU_new(info, "NaiveStall", "AlwaysNotTaken", "None")
    /\ frame = FrameIdle
    /\ sc_trace = <<>>
    /\ log = <<>>
    /\ unit \in UnitCalls

\* the ALU of both cores on one -W instruction: exec gets the immediate as
\* decode sign-extended it, exec_inst the field as the decoder cut it out
Unit_alu_w ==
    /\ unit.fn = "alu_w"
    /\ ~unit.done
    /\ \E m \in {exec_alu_out(unit.op, unit.a, unit.b,
                              IF unit.op = "addiw"
                              THEN sext(unit.b, I_TYPE_IMM_BITWIDTH) ELSE unit.b,
                              Zero64)},
          s \in {sc_result(unit.op, unit.a, unit.b, unit.b, Zero64)} :
          unit' = [unit EXCEPT !.done = TRUE,
                               !.out = [kind |-> "ok", multi |-> m, single |-> s]]
    /\ UNCHANGED <<info, steps, sc_cpu, sc_frame, sc_trace, cpu, frame, log>>

\* the i64 subtractions of sext that leave the range of i64: the mask
\* (1 << bit_width) - 1 at width 63, and (sign_bit << 1) - 1 when the sign
\* bit is bit 62.  A build with overflow checks panics there, a build
\* without them wraps.
sext_overflows(imm, bit_width) ==
    \/ wrapping_shl(One64, bit_width) = <<0, 0, 0, 32768>>
    \/ wrapping_shl(bitand(imm, wrapping_shl(One64, bit_width - 1)), 1) = <<0, 0, 0, 32768>>

\* a call of sext(unit.a, unit.n)
Unit_sext ==
    /\ unit.fn = "sext" /\ ~unit.done
    /\ \E out \in {Ok(sext(unit.a, unit.n))}
                  \cup (IF sext_overflows(unit.a, unit.n)
                        THEN {Panic("attempt to subtract with overflow")} ELSE {}) :
          unit' = [unit EXCEPT !.done = TRUE, !.out = out]
    /\ UNCHANGED <<info, steps, sc_cpu, sc_frame, sc_trace, cpu, frame, log>>

\* sb/sh/sw/sd x6, 0(x5) by width, and the loads  l* x7, 0(x5)
StoreWord(bits) ==
    CASE bits = 8 -> <<32803, 98>> [] bits = 16 -> <<36899, 98>>
      [] bits = 32 -> <<40995, 98>> [] bits = 64 -> <<45091, 98>>

LoadWord(op) ==
    CASE op = "lb" -> <<33667, 2>> [] op = "lh" -> <<37763, 2>> [] op = "lw" -> <<41859, 2>>
      [] op = "ld" -> <<45955, 2>> [] op = "lbu" -> <<50051, 2>> [] op = "lhu" -> <<54147, 2>>
      [] op = "lwu" -> <<58243, 2>>

\* one instruction taken through the stages of the pipelined core, from the
\* word to the register file and the memory it leaves (a set of one element:
\* each stage works on the value the stage before it produced)
through_stages(word, reg_file, vm) ==
    {[reg_file |-> writeback(mm.val.itl_m_w, reg_file).reg_file, vm |-> mm.val.vm] :
        mm \in {mem(ex.val.itl_e_m, vm) :
                  ex \in {exec(de) :
                            de \in {decode(reg_file, fd.val) :
                                      fd \in {inst_interpret(LdStart, word)}}}}}

\* one instruction executed by the single-cycle core (a set of one element)
through_exec_inst(word, self) ==
    {exec_inst(self, d.val).cpu : d \in {sc_decode(word)}}

\* a store of unit.a at unit.b followed by the load unit.op from unit.b, in
\* both cores, with x5 = unit.b and x6 = unit.a; the result is the x7 the
\* load leaves
Unit_store_load ==
    /\ unit.fn = "store_load" /\ ~unit.done
    /\ \E rf \in {reg_write(reg_write(RegisterFile_empty, 5, unit.b), 6, unit.a)} :
       \E m0 \in through_stages(StoreWord(unit.n), rf, from_elf_info(info)),
          s0 \in through_exec_inst(StoreWord(unit.n), [SC_new(info) EXCEPT !.reg_file = rf]) :
       \E m \in through_stages(LoadWord(unit.op), m0.reg_file, m0.vm),
          s \in through_exec_inst(LoadWord(unit.op), s0) :
          unit' = [unit EXCEPT !.done = TRUE,
                               !.out = [kind |-> "ok",
                                        multi |-> reg_read(m.reg_file, 7),
                                        single |-> reg_read(s.reg_file, 7),
                                        multi_stored |-> mread(m.vm, unit.b, unit.n),
                                        single_stored |-> mread(s.vm, unit.b, unit.n)]]
    /\ UNCHANGED <<info, steps, sc_cpu, sc_frame, sc_trace, cpu, frame, log>>

\* the register file a call on registers starts from
unit_reg_file == IF unit.op = "demo" THEN demo_reg_file ELSE RegisterFile_empty

\* RegisterFile::write(unit.n, unit.a) followed by read(unit.n)
Unit_reg ==
    /\ unit.fn = "reg" /\ ~unit.done
    /\ \E rf \in {reg_write(unit_reg_file, unit.n, unit.a)} :
          unit' = [unit EXCEPT !.done = TRUE,
                               !.out = [kind |-> "ok", read |-> reg_read(rf, unit.n),
                                        reg_file |-> rf]]
    /\ UNCHANGED <<info, steps, sc_cpu, sc_frame, sc_trace, cpu, frame, log>>

UnitNext ==
    \/ Unit_alu_w
    \/ Unit_sext
    \/ Unit_store_load
    \/ Unit_reg

UnitSpec == UnitInit /\ [][UnitNext]_vars

(***************************************************************************)
(* Properties.                                                             *)
(***************************************************************************)
\* the run of a core went to a halting ebreak and raised no fault
HaltedAtEbreak(fr) == fr.pos = "returned" /\ fr.halted.hit /\ fr.result \notin {"panic", "ub"}

\* the single-cycle core reports its halt as Err(Execute): that is its clean stop
SC_HaltedClean ==
    /\ ~steps.some
    /\ HaltedAtEbreak(sc_frame)
    /\ sc_frame.err = "Execute"

\* the pipelined core returned Ok(()) from the clock in which it halted
CPU_HaltedClean ==
    /\ ~steps.some
    /\ HaltedAtEbreak(frame)
    /\ frame.result = "Ok"

\* C1: when both cores run the same program to its halting ebreak without a
\* fault, the register file left by the pipelined core equals the one left by
\* the single-cycle core, whatever the hazard and control policies
C1_RegisterFilesAgree ==
    (SC_HaltedClean /\ CPU_HaltedClean) => cpu.reg_file = sc_cpu.reg_file

\* C2: x0 reads 0 after every completed clock of the pipelined core and after
\* every completed instruction of the single-cycle core
C2_ZeroRegister ==
    /\ reg_read(cpu.reg_file, 0) = Zero64
    /\ reg_read(sc_cpu.reg_file, 0) = Zero64

\* both cores have retired an instruction that computed a non-zero value for x0
C2_Witness ==
    \E k \in 1..(Len(log) - 1) :
        /\ log[k].itl_m_w.wb_flags.mem_to_reg
        /\ log[k].itl_m_w.rd = 0
        /\ log[k].itl_m_w.regval # Zero64
        /\ \E j \in 1..Len(sc_trace) : sc_trace[j] = log[k].itl_m_w.pc

\* a step in which the pipelined core ran a clock (every clock bumps the counter)
ClockRan == cpu'.clock # cpu.clock

\* a step in which the single-cycle core ran exec_once
ExecOnceRan == sc_trace' # sc_trace

\* C3: ebreak sets running = false in exactly the clock in which writeback
\* sees it in MEM/WB, and the exit code handed to halt is the x10 the
\* program has at the ebreak (the value the single-cycle core reports there)
C3_HaltInWritebackClock ==
    [][ClockRan =>
          /\ (cpu.itl_m_w.alu_op = "ebreak") <=> ~cpu'.running
          /\ (cpu.itl_m_w.alu_op = "ebreak") <=> (frame'.halted.hit /\ ~frame.halted.hit)
          /\ (frame'.halted.hit /\ SC_HaltedClean /\ sc_frame.halted.at = frame'.halted.at)
                => frame'.halted.code = sc_frame.halted.code]_vars

\* the iterations a call of cpu_exec has started so far
IterationsRun(fr) == fr.i + (IF fr.result \in {"Err", "panic", "ub"} THEN 1 ELSE 0)

\* the most iterations the budget allows
Budget == IF steps.n > 0 THEN steps.n ELSE 0

\* C4: cpu_exec(Some(n)) runs at most n iterations (none when n <= 0), and no
\* clock or instruction is run after the one that halted or returned an error
C4_CpuExecStops ==
    [][/\ ClockRan => /\ ~frame.halted.hit
                      /\ frame.result = "none"
                      /\ steps.some => IterationsRun(frame') <= Budget
       /\ ExecOnceRan => /\ ~sc_frame.halted.hit
                         /\ sc_frame.result = "none"
                         /\ steps.some => IterationsRun(sc_frame') <= Budget]_vars

\* the pipelined core stopped because its budget ran out, still running
C4_Witness ==
    /\ steps.some
    /\ steps.n > 0
    /\ frame.pos = "returned"
    /\ frame.result = "Ok"
    /\ frame.i = steps.n
    /\ cpu.running
    /\ sc_frame.i = steps.n

\* the word is one the decode tables know no instruction for
UnknownWord(w) == inst_interpret(Zero64, w).kind = "err"

\* the single-cycle run ended on an unknown word: it is on the program's path
SC_StoppedAtUnknownWord ==
    /\ ~steps.some
    /\ sc_frame.pos = "returned"
    /\ Len(sc_trace) > 0
    /\ UnknownWord(fetch_inst(sc_cpu.vm, sc_trace[Len(sc_trace)]))

\* C5: when the program runs onto a word with an unknown opcode/funct
\* combination, cpu_exec returns the decode error to its caller and the run
\* stops there, in the single-cycle core and in the pipelined core alike
C5_DecodeErrorSurfaces ==
    SC_StoppedAtUnknownWord =>
        /\ sc_frame.result = "Err" /\ sc_frame.err = "Decode"
        /\ frame.pos = "returned" => (frame.result = "Err" /\ frame.err = "Decode")

DivRemOps == {"div", "divu", "rem", "remu"}

DivRemWordOps == {"divw", "divuw", "remw", "remuw"}

\* a division or remainder whose divisor is zero (the -W forms look at the
\* low 32 bits of rs2)
ZeroDivisor(op, src2) ==
    \/ op \in DivRemOps /\ src2 = Zero64
    \/ op \in DivRemWordOps /\ trunc_to_32_bit(src2) = Zero64

\* the instruction the single-cycle core is about to execute
SC_Current == sc_decode(fetch_inst(sc_cpu.vm, sc_cpu.pc))

\* C6: in both cores a division or remainder by zero fails with
\* DividedByZero, writes no register and ends the run
C6_DividedByZero ==
    [][/\ (ExecOnceRan /\ SC_Current.kind = "ok"
           /\ ZeroDivisor(SC_Current.val.inst,
                          reg_read(sc_cpu.reg_file, SC_Current.val.rs2)))
          => /\ sc_frame'.pos = "returned"
             /\ sc_frame'.result = "Err" /\ sc_frame'.err = "DividedByZero"
             /\ sc_cpu'.reg_file = sc_cpu.reg_file
       /\ (ClockRan /\ ZeroDivisor(cpu.itl_d_e.exec_flags.alu_op, exec_info(cpu).src2))
          => /\ frame'.pos = "returned"
             /\ frame'.result = "Err" /\ frame'.err = "DividedByZero"
             /\ cpu'.reg_file = writeback_reg_file(cpu.itl_m_w, cpu.reg_file)]_vars

\* a step in which the pipelined core ran a clock that returned Ok(())
ClockCompleted == ClockRan /\ Len(log') = Len(log) + 1

\* the trace of the clock just completed (primed: the last entry of log')
LastClock == log[Len(log)]

\* the PCs of the instructions that left EX, in order
ExecutedPcs ==
    LET done == SelectSeq(Tail(log), LAMBDA e : e.itl_e_m.alu_op # "noop")
    IN  [k \in 1..Len(done) |-> done[k].itl_e_m.pc]

\* every instruction that left EX is the one the program executes at that
\* point (the single-cycle core's trace up to its halt is the program's path)
OnlyPathExecuted ==
    SC_HaltedClean =>
        \A k \in 1..Len(ExecutedPcs) :
            k <= Len(sc_trace) => ExecutedPcs[k] = sc_trace[k]

\* C7: when EX detects a misprediction, the IF/ID and ID/EX latches committed
\* in that clock are bubbles, and no instruction off the program's path ever
\* leaves EX
C7_WrongPathSquashed ==
    [][ClockCompleted =>
          /\ LastClock'.ex.mispredict =>
                /\ cpu'.itl_f_d = InternalFetchDecode_default
                /\ cpu'.itl_d_e = InternalDecodeExec_default
          /\ OnlyPathExecuted']_vars

\* the part of C7 about the clock of the detection alone
FlushedOnMisprediction ==
    \A k \in 2..Len(log) :
        log[k].ex.mispredict =>
            /\ log[k].itl_f_d = InternalFetchDecode_default
            /\ log[k].itl_d_e = InternalDecodeExec_default

\* the PC after a clock when no misprediction and no stall decide it
FetchChosenPc ==
    IF cpu'.itl_f_d.branch_flags.predicted_src
    THEN cpu'.itl_f_d.branch_flags.predicted_target
    ELSE wrapping_add(cpu.pc, U(4))

\* C8 as stated: stall, then misprediction recovery, then predicted target,
\* then PC + 4, also when a stall request and a misprediction coincide
C8_StallBeforeRecovery ==
    [][ClockCompleted =>
          cpu'.pc = IF LastClock'.ex.pc_stall THEN cpu.pc
                    ELSE IF LastClock'.ex.mispredict THEN LastClock'.ex.decided_pc
                    ELSE FetchChosenPc]_vars

\* C8 amended: a misprediction sets the PC to the recovery PC even when a
\* PC stall is requested for the same clock; otherwise a requested stall
\* leaves the PC unchanged; otherwise the predicted target of a fetch that
\* predicted taken; otherwise PC + 4
C8_RecoveryBeforeStall ==
    [][ClockCompleted =>
          cpu'.pc = IF LastClock'.ex.mispredict THEN LastClock'.ex.decided_pc
                    ELSE IF LastClock'.ex.pc_stall THEN cpu.pc
                    ELSE FetchChosenPc]_vars

\* a clock in which a PC stall request and a misprediction coincided and the
\* PC moved to the recovery PC, and a clock in which a stall alone froze it
C8_Witness ==
    /\ \E k \in 2..Len(log) :
          /\ log[k].ex.mispredict /\ log[k].ex.pc_stall
          /\ log[k].pc = log[k].ex.decided_pc
          /\ log[k].pc # log[k - 1].pc
    /\ \E k \in 2..Len(log) :
          /\ ~log[k].ex.mispredict /\ log[k].ex.pc_stall
          /\ log[k].pc = log[k - 1].pc

\* two latches hold the same instruction
SameInst(a, b) == a.pc = b.pc /\ a.raw_inst = b.raw_inst

\* the instruction in IF/ID reads register r
Reads(itl_f_d, r) == r # 0 /\ (itl_f_d.rs1 = r \/ itl_f_d.rs2 = r)

\* From trace entry t on, the instruction held in IF/ID stays there with the
\* PC frozen for n clocks while ID/EX receives bubbles; it enters ID/EX in
\* the clock after, once; the producer is then in MEM/WB or retired, and the
\* ALU receives the value v the producer wrote for the register r.
HeldFor(t, n, r, v) ==
    LET held == log[t].itl_f_d
    IN  /\ \A j \in 1..n :
              t + j <= Len(log) =>
                  /\ log[t + j].itl_f_d = held
                  /\ log[t + j].pc = log[t].pc
                  /\ log[t + j].itl_d_e = InternalDecodeExec_default
        /\ t + n + 1 <= Len(log) => SameInst(log[t + n + 1].itl_d_e, held)
        /\ t + n + 2 <= Len(log) =>
              /\ ~SameInst(log[t + n + 2].itl_d_e, held)
              /\ SameInst(log[t + n + 2].itl_e_m, held)
              /\ held.rs1 = r => log[t + n + 2].ex.src1 = v
              /\ held.rs2 = r => log[t + n + 2].ex.src2 = v

\* trace entry t has a load in ID/EX whose rd the instruction in IF/ID reads
LoadUseAt(t) ==
    /\ log[t].itl_d_e.mem_flags.mem_read
    /\ Reads(log[t].itl_f_d, log[t].itl_d_e.rd)

LoadUseDelay == IF cpu.data_hazard_policy = "DataForward" THEN 1 ELSE 2

\* C9: behind a load in ID/EX, the instruction in IF/ID that reads the
\* loaded register enters EX exactly 1 clock late under DataForward and 2
\* under NaiveStall, IF/ID and the PC frozen and ID/EX bubbled meanwhile,
\* and it computes with the loaded value
C9_LoadUseDelay ==
    \A t \in 1..Len(log) :
        (LoadUseAt(t) /\ t + 2 <= Len(log)) =>
            /\ SameInst(log[t + 2].itl_m_w, log[t].itl_d_e)
            /\ HeldFor(t, LoadUseDelay, log[t].itl_d_e.rd, log[t + 2].itl_m_w.regval)

\* a load-use pair went all the way: the dependent instruction has left EX
C9_Witness ==
    \E t \in 1..Len(log) :
        /\ LoadUseAt(t)
        /\ t + LoadUseDelay + 2 <= Len(log)
        /\ log[t + 2].itl_m_w.regval # Zero64

\* NaiveStall, trace entry t: the instruction in ID/EX writes a register
\* that the instruction in IF/ID reads
ProducerInIdEx(t) ==
    /\ cpu.data_hazard_policy = "NaiveStall"
    /\ log[t].itl_d_e.wb_flags.mem_to_reg
    /\ Reads(log[t].itl_f_d, log[t].itl_d_e.rd)

\* NaiveStall, trace entry t: the producer is in EX/MEM instead
ProducerInExMem(t) ==
    /\ cpu.data_hazard_policy = "NaiveStall"
    /\ ~ProducerInIdEx(t)
    /\ log[t].itl_e_m.wb_flags.mem_to_reg
    /\ Reads(log[t].itl_f_d, log[t].itl_e_m.rd)
    /\ log[t].itl_d_e.rd # log[t].itl_e_m.rd

\* the stalls of the naive policy from trace entry t on
NaiveStallAt(t) ==
    /\ (ProducerInIdEx(t) /\ t + 2 <= Len(log)) =>
          /\ SameInst(log[t + 2].itl_m_w, log[t].itl_d_e)
          /\ HeldFor(t, 2, log[t].itl_d_e.rd, log[t + 2].itl_m_w.regval)
    /\ (ProducerInExMem(t) /\ t + 1 <= Len(log)) =>
          /\ SameInst(log[t + 1].itl_m_w, log[t].itl_e_m)
          /\ HeldFor(t, 1, log[t].itl_e_m.rd, log[t + 1].itl_m_w.regval)

TakenTransfer(itl_e_m, src1, src2) ==
    \/ itl_e_m.alu_op \in {"jal", "jalr"}
    \/ itl_e_m.alu_op \in CondBranchOps /\ sc_branch_taken(itl_e_m.alu_op, src1, src2)

\* the run of `beq x0,x0,+8; addi x5,x0,1; addi x5,x0,2; bne x0,x0,+8; ...`
\* under always-not-taken has come to its ebreak
BranchExampleDone ==
    /\ info.name = "ProgBranch"
    /\ cpu.control_policy = "AlwaysNotTaken"
    /\ CPU_HaltedClean

\* C11: under always-not-taken a clock whose EX holds a taken control
\* transfer adds 1 to control_hazard_count and 2 to
\* control_hazard_delayed_cycles, every other clock (a not-taken branch
\* included) adds nothing, and the example ends with x5 = 2 and the counters
\* at 1 and 2
C11_TakenTransferCounted ==
    [][/\ (ClockCompleted /\ cpu.control_policy = "AlwaysNotTaken") =>
            LET taken == TakenTransfer(cpu'.itl_e_m, LastClock'.ex.src1, LastClock'.ex.src2)
                before == cpu.cpu_statistics
                after == cpu'.cpu_statistics
            IN  /\ after.control_hazard_count = before.control_hazard_count + B2N(taken)
                /\ after.control_hazard_delayed_cycles =
                       before.control_hazard_delayed_cycles + 2 * B2N(taken)
       /\ BranchExampleDone' =>
            /\ reg_read(cpu'.reg_file, 5) = U(2)
            /\ cpu'.cpu_statistics.control_hazard_count = 1
            /\ cpu'.cpu_statistics.control_hazard_delayed_cycles = 2]_vars

\* the example has ended with its one misprediction counted, after a taken
\* and a not-taken branch both left EX
C11_Witness ==
    /\ BranchExampleDone
    /\ cpu.cpu_statistics.control_hazard_count = 1
    /\ \E k \in 2..Len(log) : log[k].itl_e_m.alu_op = "bne" /\ ~log[k].ex.mispredict
    /\ \E k \in 2..Len(log) : log[k].itl_e_m.alu_op = "beq" /\ log[k].ex.mispredict

\* the PCs of the jalr instructions that left EX so far
JalrPcs == {log[k].itl_e_m.pc : k \in {j \in 2..Len(log) : log[j].itl_e_m.alu_op = "jalr"}}

\* C12: under dynamic prediction the BTB entry of a control instruction other
\* than jalr never changes once written, and no clock fails the stability
\* assertion of add_entry
C12_BtbEntryStable ==
    [][(ClockRan /\ cpu.control_policy = "DynamicPredict") =>
          /\ ~(frame'.result = "panic" /\ frame'.err = "assert old_target == target")
          /\ \A pc \in DOMAIN cpu.btb \ JalrPcs' :
                pc \in DOMAIN cpu'.btb /\ cpu'.btb[pc] = cpu.btb[pc]]_vars

\* the transitions of the two-bit counter as the specification lists them:
\* <<counter, taken, next counter>>
SmithTable ==
    {<<0, TRUE, 1>>, <<1, TRUE, 3>>, <<1, FALSE, 0>>, <<3, FALSE, 2>>, <<2, TRUE, 3>>,
     <<2, FALSE, 0>>, <<0, FALSE, 0>>, <<3, TRUE, 3>>}

\* the outcomes (taken or not), in order, of the executions of the control
\* instruction at pc that left EX
BranchOutcomes(pc) ==
    LET done == SelectSeq(Tail(log),
                          LAMBDA e : e.itl_e_m.branch_flags.branch /\ e.itl_e_m.pc = pc)
    IN  [k \in 1..Len(done) |-> done[k].itl_e_m.branch_flags.pc_src]

\* a clock under dynamic prediction whose fetch delivered a new conditional
\* branch to IF/ID
FetchedCondBranch ==
    /\ ClockCompleted
    /\ cpu.control_policy = "DynamicPredict"
    /\ cpu'.itl_f_d # cpu.itl_f_d
    /\ cpu'.itl_f_d.exec_flags.alu_op \in CondBranchOps

\* C13: with the 2-bit policy the clock in which a control instruction leaves
\* EX moves the counter of its PC by the Smith table and leaves the other
\* counters alone, every counter is 0, 1, 2 or 3, and a fetched branch is
\* predicted taken exactly when its counter is 2 or 3
C13_SmithCounter ==
    [][(ClockCompleted /\ cpu.control_policy = "DynamicPredict"
        /\ cpu.predict_policy = "TwoBitsPredict") =>
          LET e == cpu'.itl_e_m
              taken == TakenTransfer(e, LastClock'.ex.src1, LastClock'.ex.src2)
              updated == IF e.branch_flags.branch THEN {e.pc} ELSE {}
          IN  /\ \A pc \in updated :
                    /\ pc \in DOMAIN cpu.bht
                    /\ <<cpu.bht[pc], taken, cpu'.bht[pc]>> \in SmithTable
              /\ \A pc \in DOMAIN cpu.bht \ updated : cpu'.bht[pc] = cpu.bht[pc]
              /\ \A pc \in DOMAIN cpu'.bht : cpu'.bht[pc] \in 0..3
              /\ FetchedCondBranch =>
                    (cpu'.itl_f_d.branch_flags.predicted_src
                        <=> (cpu.pc \in DOMAIN cpu.bht /\ cpu.bht[cpu.pc] \in {2, 3}))]_vars

\* the bltu of ProgSmith has run through its nine outcomes, which take the
\* counter over every transition of the table, and ended in state 00
C13_Witness ==
    /\ info.name = "ProgSmith"
    /\ cpu.control_policy = "DynamicPredict" /\ cpu.predict_policy = "TwoBitsPredict"
    /\ CPU_HaltedClean
    /\ BranchOutcomes(U(276)) =
           <<FALSE, FALSE, TRUE, TRUE, TRUE, FALSE, TRUE, FALSE, FALSE>>
    /\ cpu.bht[U(276)] = 0

\* the real outcomes, in order, of the executions of the control instruction
\* at pc that were resolved in EX, judged from the operands EX used
ResolvedOutcomes(pc) ==
    LET done == SelectSeq(Tail(log),
                          LAMBDA e : e.itl_e_m.branch_flags.branch /\ e.itl_e_m.pc = pc)
    IN  [k \in 1..Len(done) |-> TakenTransfer(done[k].itl_e_m, done[k].ex.src1, done[k].ex.src2)]

\* the outcome of the most recent resolved execution at pc, not taken if none
LastOutcome(pc) ==
    LET o == ResolvedOutcomes(pc) IN IF Len(o) = 0 THEN FALSE ELSE o[Len(o)]

\* the PCs the pipelined core has seen: fetched, predicted or executed
SeenPCs == {cpu.pc} \cup DOMAIN cpu.bht \cup {log[k].itl_e_m.pc : k \in 1..Len(log)}

\* the one-bit table predicts, for every PC, the last resolved outcome
OneBitTracksLast ==
    \A pc \in SeenPCs : predict(cpu.bht, "OneBitPredict", pc).taken = LastOutcome(pc)

\* C14: with the 1-bit policy the BHT prediction of every PC is the outcome of
\* the most recent resolved execution of the control instruction there, and
\* not taken for a PC never resolved; fetch predicts a conditional branch so
C14_OneBitLastOutcome ==
    [][(cpu.control_policy = "DynamicPredict" /\ cpu.predict_policy = "OneBitPredict") =>
          /\ OneBitTracksLast'
          /\ FetchedCondBranch =>
                (cpu'.itl_f_d.branch_flags.predicted_src = LastOutcome(cpu.pc))]_vars

\* the bltu of ProgSmith was resolved not taken and later taken, and is now
\* predicted taken, while the ret behind it has not been resolved yet
C14_Witness ==
    /\ info.name = "ProgSmith"
    /\ cpu.control_policy = "DynamicPredict" /\ cpu.predict_policy = "OneBitPredict"
    /\ ResolvedOutcomes(U(276)) = <<FALSE, FALSE, TRUE>>
    /\ Len(ResolvedOutcomes(U(280))) = 2
    /\ predict(cpu.bht, "OneBitPredict", U(276)).taken
    /\ ~predict(cpu.bht, "OneBitPredict", U(288)).taken

\* a clock under dynamic prediction whose fetch delivered a new instruction
\* with operation op to IF/ID; the instruction was fetched at cpu.pc
FetchedOp(op) ==
    /\ ClockCompleted
    /\ cpu.control_policy = "DynamicPredict"
    /\ cpu'.itl_f_d # cpu.itl_f_d
    /\ cpu'.itl_f_d.exec_flags.alu_op = op

\* the RAS as the fetch of a clock finds it: EX runs first and has pushed the
\* fall-through address of a call (jal with rd = 1) it executed
RasAtFetch ==
    IF cpu.itl_d_e.exec_flags.alu_op = "jal" /\ cpu.itl_d_e.rd = 1
    THEN Append(cpu.ras, wrapping_add(cpu.itl_d_e.pc, U(4)))
    ELSE cpu.ras

\* the target of a fetched jalr as the specification gives it, and the RAS
\* as the prediction leaves it
JalrTargetAsSpecified ==
    LET f == cpu'.itl_f_d
        R == RasAtFetch
    IN  IF f.raw_inst = <<32871, 0>>
        THEN IF Len(R) = 0
             THEN f.branch_flags.predicted_target = cpu.pc /\ cpu'.ras = R
             ELSE /\ f.branch_flags.predicted_target = R[Len(R)]
                  /\ cpu'.ras = SubSeq(R, 1, Len(R) - 1)
        ELSE /\ cpu.pc \in DOMAIN cpu.btb
             /\ f.branch_flags.predicted_target = cpu.btb[cpu.pc]
             /\ cpu'.ras = R

JalTargetAsSpecified ==
    cpu'.itl_f_d.branch_flags.predicted_target =
        (IF cpu.pc \in DOMAIN cpu.btb THEN cpu.btb[cpu.pc] ELSE Zero64)

WordOpcode(w) == w[1] % 128
WordFunct3(w) == (w[1] \div 4096) % 8
WordRd(w) == (w[1] \div 128) % 32
WordRs1(w) == (w[1] \div 32768) + 2 * (w[2] % 16)

\* the program is N addi followed by an ebreak, and no addi reads a register
\* that one of the two instructions before it writes
StraightAddi ==
    LET code == info.code
        N == Len(code) - 1
    IN  /\ code[N + 1] = <<115, 16>>
        /\ \A j \in 1..N : WordOpcode(code[j]) = 19 /\ WordFunct3(code[j]) = 0
        /\ \A i, j \in 1..N :
              (i < j /\ j - i <= 2) => (WordRd(code[i]) = 0 \/ WordRd(code[i]) # WordRs1(code[j]))

\* C17: a program of N addi without hazards and an ebreak, run without a step
\* budget, never passes clock N + 5, stops running exactly there, and halts
\* with clock = N + 4 + 1 and executed_inst_count = N + 1
C17_StraightLineClock ==
    (StraightAddi /\ ~steps.some) =>
        LET N == Len(info.code) - 1
        IN  /\ cpu.clock <= N + 5
            /\ cpu.cpu_statistics.executed_inst_count <= N + 1
            /\ (frame.pos = "loop" /\ ~cpu.running) <=> (frame.pos = "loop" /\ cpu.clock = N + 5)
            /\ frame.pos = "returned" =>
                  /\ CPU_HaltedClean
                  /\ cpu.clock = N + 5
                  /\ cpu.cpu_statistics.executed_inst_count = N + 1

\* the five-addi program has halted after 10 clocks and 6 instructions
C17_Witness ==
    /\ StraightAddi
    /\ Len(info.code) = 6
    /\ CPU_HaltedClean
    /\ cpu.clock = 10
    /\ cpu.cpu_statistics.executed_inst_count = 6

\* the operations the specification charges extra clocks for
DivFamily == {"div", "divu", "divw", "divuw"}
MulFamily == {"mul", "mulh", "mulhsu", "mulhu", "mulw"}
RemFamily == {"rem", "remu", "remw", "remuw"}

\* the extra clocks of an operation that is not a rem
ExtraCycles(op) == IF op \in DivFamily THEN 39 ELSE IF op \in MulFamily THEN 1 ELSE 0

\* C18: a clock advances the cycle counter by 1 plus 39 when the instruction
\* leaving EX is of the div family, plus 1 when it is of the mul family and
\* plus 0 for any other that is not a rem; an instruction is in EX/MEM for one
\* clock only and moves on to MEM/WB, so it is charged exactly once
C18_ExtraCyclesOnce ==
    [][ClockCompleted =>
          LET op == cpu'.itl_e_m.alu_op
          IN  /\ op \notin RemFamily => cpu'.clock = cpu.clock + 1 + ExtraCycles(op)
              /\ op \in RemFamily => cpu'.clock \in {cpu.clock + 1, cpu.clock + 40}
              /\ cpu'.itl_m_w.pc = cpu.itl_e_m.pc /\ cpu'.itl_m_w.alu_op = cpu.itl_e_m.alu_op
              /\ op # "noop" => ~(cpu.itl_e_m.alu_op = op /\ cpu.itl_e_m.pc = cpu'.itl_e_m.pc)]_vars

\* ProgDivRem has halted under DataForward: 11 clocks for its 7 instructions,
\* 39 more for the div, none for the paired rem, 1 more for the mul
C18_Witness ==
    /\ info.name = "ProgDivRem"
    /\ cpu.data_hazard_policy = "DataForward"
    /\ CPU_HaltedClean
    /\ Len(log) = 12
    /\ cpu.clock = 51
    /\ \E k \in 2..Len(log) : log[k].itl_e_m.alu_op = "div"
    /\ \E k \in 2..Len(log) : log[k].itl_e_m.alu_op = "mul"

\* d is the div that matches the rem r, on the same source register numbers
MatchingDiv(r, d) ==
    /\ <<d.alu_op, r.alu_op>> \in
           {<<"div", "rem">>, <<"divu", "remu">>, <<"divw", "remw">>, <<"divuw", "remuw">>}
    /\ d.rs1 = r.rs1
    /\ d.rs2 = r.rs2

\* the instructions that have left EX so far, in order, bubbles left out
Issued == SelectSeq([k \in 1..Len(log) |-> log[k].itl_e_m], LAMBDA e : e.alu_op # "noop")

\* the rem r leaves EX with the matching div as the instruction issued just
\* before it
IssuedBehindMatchingDiv(r) == Len(Issued) > 0 /\ MatchingDiv(r, Issued[Len(Issued)])

\* a clock in which a rem leaves EX
RemLeavesEx == ClockCompleted /\ cpu'.itl_e_m.alu_op \in RemFamily

\* the extra clocks charged in a clock
Charged == cpu'.clock - cpu.clock - 1

\* C19 as stated: a rem is charged 39 extra clocks unless the instruction
\* issued immediately before it is the matching div on the same rs1 and rs2,
\* and then none, under either hazard policy
C19_RemFreeBehindDiv ==
    [][RemLeavesEx =>
          Charged = IF IssuedBehindMatchingDiv(cpu'.itl_e_m) THEN 0 ELSE 39]_vars

\* the rem r reads the register the div d writes
ReadsResultOf(r, d) == d.rd # 0 /\ d.rd \in {r.rs1, r.rs2}

\* C19 amended: a rem is charged 39 extra clocks unless the instruction that
\* left EX in the clock before (a bubble being none) is the matching div on
\* the same rs1 and rs2 register numbers, and then none; behind its matching
\* div it is charged nothing under DataForward, and under NaiveStall nothing
\* unless it reads the register the div writes, when it is charged 39
C19_RemFreeBehindDivInEx ==
    [][RemLeavesEx =>
          LET r == cpu'.itl_e_m
          IN  /\ Charged = IF MatchingDiv(r, cpu.itl_e_m) THEN 0 ELSE 39
              /\ IssuedBehindMatchingDiv(r) =>
                    Charged = IF cpu.data_hazard_policy = "NaiveStall"
                                 /\ ReadsResultOf(r, Issued[Len(Issued)])
                              THEN 39 ELSE 0]_vars

\* ProgRemDep has halted under NaiveStall: the rem left EX three clocks behind
\* its div, with bubbles in between, and the pair cost 78 extra clocks
C19_Witness ==
    /\ info.name = "ProgRemDep"
    /\ cpu.data_hazard_policy = "NaiveStall"
    /\ CPU_HaltedClean
    /\ \E k \in 2..Len(log) - 3 :
          /\ log[k].itl_e_m.alu_op = "div"
          /\ log[k + 1].itl_e_m.alu_op = "noop"
          /\ log[k + 2].itl_e_m.alu_op = "noop"
          /\ log[k + 3].itl_e_m.alu_op = "rem"
          /\ MatchingDiv(log[k + 3].itl_e_m, log[k].itl_e_m)
    /\ cpu.clock - (Len(log) - 1) = 78

\* the high-product operations
HighOps == {"mulh", "mulhu", "mulhsu"}

\* known high products <<operation, rs1, rs2, bits 127..64 of the product>>
\* of -1, 1, 3, 2^63 (the least i64) and 2^63 - 1 (the greatest), the
\* operands taken as signed or unsigned as the operation says
KnownHigh ==
    {<<"mulh", <<65535, 65535, 65535, 65535>>, U(1), <<65535, 65535, 65535, 65535>>>>,
     <<"mulhu", <<65535, 65535, 65535, 65535>>, U(1), Zero64>>,
     <<"mulhsu", <<65535, 65535, 65535, 65535>>, U(1), <<65535, 65535, 65535, 65535>>>>,
     <<"mulhsu", U(1), <<65535, 65535, 65535, 65535>>, Zero64>>,
     <<"mulh", <<65535, 65535, 65535, 65535>>, <<65535, 65535, 65535, 65535>>, Zero64>>,
     <<"mulhu", <<65535, 65535, 65535, 65535>>, <<65535, 65535, 65535, 65535>>, <<65534, 65535, 65535, 65535>>>>,
     <<"mulhsu", <<65535, 65535, 65535, 65535>>, <<65535, 65535, 65535, 65535>>, <<65535, 65535, 65535, 65535>>>>,
     <<"mulh", <<0, 0, 0, 32768>>, <<65535, 65535, 65535, 32767>>, <<0, 0, 0, 49152>>>>,
     <<"mulhu", <<0, 0, 0, 32768>>, <<65535, 65535, 65535, 32767>>,
       <<65535, 65535, 65535, 16383>>>>,
     <<"mulhsu", <<0, 0, 0, 32768>>, <<65535, 65535, 65535, 32767>>, <<0, 0, 0, 49152>>>>,
     <<"mulh", <<65535, 65535, 65535, 32767>>, <<65535, 65535, 65535, 32767>>,
       <<65535, 65535, 65535, 16383>>>>,
     <<"mulh", <<0, 0, 0, 32768>>, U(3), <<65534, 65535, 65535, 65535>>>>,
     <<"mulhu", <<0, 0, 0, 32768>>, U(3), U(1)>>,
     <<"mulhsu", U(3), <<0, 0, 0, 32768>>, U(1)>>,
     <<"mulh", <<0, 0, 0, 32768>>, <<0, 0, 0, 32768>>, <<0, 0, 0, 16384>>>>}

\* r is the known high product of a and b under op, if there is one
HighProductRight(op, a, b, r) ==
    \A e \in KnownHigh : (e[1] = op /\ e[2] = a /\ e[3] = b) => r = e[4]

\* C20: in both cores mulh, mulhu and mulhsu return the high 64 bits of the
\* signed x signed, unsigned x unsigned and signed x unsigned 128-bit product
C20_HighProducts ==
    [][/\ (ExecOnceRan /\ SC_Current.kind = "ok" /\ SC_Current.val.inst \in HighOps) =>
              HighProductRight(SC_Current.val.inst,
                               reg_read(sc_cpu.reg_file, SC_Current.val.rs1),
                               reg_read(sc_cpu.reg_file, SC_Current.val.rs2),
                               reg_read(sc_cpu'.reg_file, SC_Current.val.rd))
       /\ (ClockCompleted /\ cpu'.itl_e_m.alu_op \in HighOps) =>
              HighProductRight(cpu'.itl_e_m.alu_op, LastClock'.ex.src1, LastClock'.ex.src2,
                               cpu'.itl_e_m.alu_out)]_vars

\* the low 32 bits of x sign-extended and zero-extended to 64 bits, and a
\* 12-bit immediate field sign-extended
Sx32(x) == LET f == IF x[2] >= 32768 THEN 65535 ELSE 0 IN <<x[1], x[2], f, f>>
Zx32(x) == <<x[1], x[2], 0, 0>>
Sx12(x) == IF x[1] >= 2048 THEN <<x[1] + 61440, 65535, 65535, 65535>> ELSE x

\* the RV64IM result of a -W instruction on a and b, b being the second
\* register, the immediate field or the shift amount
WordResult(op, a, b) ==
    LET sh == b[1] % 32
    IN  CASE op = "addw" -> Sx32(wrapping_add(a, b))
          [] op = "addiw" -> Sx32(wrapping_add(a, Sx12(b)))
          [] op = "subw" -> Sx32(wrapping_sub(a, b))
          [] op = "mulw" -> Sx32(wrapping_mul(a, b))
          [] op = "divw" -> Sx32(wrapping_div_i64(Sx32(a), Sx32(b)))
          [] op = "divuw" -> Sx32(wrapping_div_u64(Zx32(a), Zx32(b)))
          [] op = "remw" -> Sx32(wrapping_rem_i64(Sx32(a), Sx32(b)))
          [] op = "remuw" -> Sx32(wrapping_rem_u64(Zx32(a), Zx32(b)))
          [] op \in {"sllw", "slliw"} -> Sx32(wrapping_shl(a, sh))
          [] op \in {"srlw", "srliw"} -> Sx32(wrapping_shr(Zx32(a), sh))
          [] op \in {"sraw", "sraiw"} -> Sx32(wrapping_shr_i64(Sx32(a), sh))

\* a finished call of a -W instruction that is not a division or remainder
\* by a divisor whose low 32 bits are zero
WordCallDone ==
    /\ unit.fn = "alu_w"
    /\ unit.done
    /\ unit.op \in {"divw", "divuw", "remw", "remuw"} => Zx32(unit.b) # Zero64

\* C21: for every -W instruction both cores write the RV64IM 32-bit result
\* on the low 32 bits of the operands, sign-extended to 64 bits
C21_WordResults ==
    WordCallDone =>
        /\ unit.out.multi.kind = "ok"
        /\ unit.out.multi.val = WordResult(unit.op, unit.a, unit.b)
        /\ unit.out.single.kind = "ok"
        /\ unit.out.single.val = WordResult(unit.op, unit.a, unit.b)

\* a -W immediate shift (slliw, srliw, sraiw) whose instruction bit 25, the
\* sixth bit of the shift amount, is set
WShiftBit25(w) ==
    /\ WordOpcode(w) = OP_IMM_32
    /\ WordFunct3(w) \in {1, 5}
    /\ (w[2] \div 512) % 2 = 1

\* C22: a -W immediate shift with instruction bit 25 set raises
\* IllegalInstruction and ends the run, in both cores: it is not executed
\* with a truncated shift amount and the run does not end in another error
C22_WShiftBit25Illegal ==
    [][/\ (ExecOnceRan /\ WShiftBit25(fetch_inst(sc_cpu.vm, sc_cpu.pc)))
          => /\ sc_frame'.pos = "returned"
             /\ sc_frame'.result = "Err" /\ sc_frame'.err = "IllegalInstruction"
             /\ sc_cpu'.reg_file = sc_cpu.reg_file
       /\ (ClockRan /\ WShiftBit25(cpu.itl_d_e.raw_inst))
          => /\ frame'.pos = "returned"
             /\ frame'.result = "Err" /\ frame'.err = "IllegalInstruction"
       /\ (ClockRan /\ InRange(cpu.vm, cpu.pc, 32) /\ WShiftBit25(fetch_inst(cpu.vm, cpu.pc))
           /\ frame'.pos = "returned")
          => frame'.result = "Err" /\ frame'.err = "IllegalInstruction"]_vars

\* the run of ProgLuiSrli has executed both instructions: the single-cycle
\* core has run at least two steps, the pipelined core has halted at the
\* ebreak
LuiSrliDone_SC == info.name = "ProgLuiSrli" /\ Len(sc_trace) >= 2

LuiSrliDone_CPU == info.name = "ProgLuiSrli" /\ CPU_HaltedClean

\* C23: lui x7, 0xFFFFF leaves x7 = 0xFFFFFFFF_FFFFF000 and the following
\* srli x8, x7, 12 leaves x8 = 0x0000000F_FFFFFFFF (a logical shift by the
\* 6-bit amount), in both cores
C23_LuiSrli ==
    /\ LuiSrliDone_SC =>
          /\ reg_read(sc_cpu.reg_file, 7) = <<61440, 65535, 65535, 65535>>
          /\ reg_read(sc_cpu.reg_file, 8) = <<65535, 65535, 15, 0>>
    /\ LuiSrliDone_CPU =>
          /\ reg_read(cpu.reg_file, 7) = <<61440, 65535, 65535, 65535>>
          /\ reg_read(cpu.reg_file, 8) = <<65535, 65535, 15, 0>>

C23_Witness ==
    /\ LuiSrliDone_SC /\ SC_HaltedClean
    /\ LuiSrliDone_CPU
    /\ reg_read(cpu.reg_file, 8) = <<65535, 65535, 65535, 15>>
    /\ reg_read(sc_cpu.reg_file, 8) = <<65535, 65535, 65535, 15>>

\* C23 (amended): lui x7, 0xFFFFF leaves x7 = 0xFFFFFFFF_FFFFF000 and the
\* following srli x8, x7, 12 leaves the logical shift of that value,
\* x8 = 0x000FFFFF_FFFFFFFF, in both cores
C23_LuiSrliLogical ==
    /\ LuiSrliDone_SC =>
          /\ reg_read(sc_cpu.reg_file, 7) = <<61440, 65535, 65535, 65535>>
          /\ reg_read(sc_cpu.reg_file, 8) = <<65535, 65535, 65535, 15>>
    /\ LuiSrliDone_CPU =>
          /\ reg_read(cpu.reg_file, 7) = <<61440, 65535, 65535, 65535>>
          /\ reg_read(cpu.reg_file, 8) = <<65535, 65535, 65535, 15>>

\* the arithmetic sign extension of the low n bits of x, bit by bit
SignExtended(x, n) == FromBits([i \in 0..63 |-> IF i < n THEN Bit(x, i) ELSE Bit(x, n - 1)])

\* C24: for every width n in 1..63 and every x, sext(x, n) returns the
\* arithmetic sign extension of the low n bits of x: bits n-1..0 are kept,
\* bits 63..n equal bit n-1, and the bits of x from n up play no part
C24_SextIsSignExtension ==
    (unit.fn = "sext" /\ unit.done) => unit.out = Ok(SignExtended(unit.a, unit.n))

\* the low n bits of x, the rest zero
LowBits(x, n) == FromBits([i \in 0..63 |-> IF i < n THEN Bit(x, i) ELSE 0])

\* what a load of unit.n bits returns when the memory holds the low unit.n
\* bits of unit.a: sign-extended by lb, lh and lw, zero-extended by lbu, lhu
\* and lwu, all 64 bits by ld
LoadedBack ==
    IF unit.op \in {"lb", "lh", "lw"} THEN SignExtended(unit.a, unit.n)
    ELSE LowBits(unit.a, unit.n)

\* C25: at every width 8, 16, 32, 64 and every address inside the image and
\* aligned to the width, a store followed by a load of the same width from
\* the same address returns the stored value: sign-extended from the width
\* by lb, lh, lw, zero-extended by lbu, lhu, lwu
C25_StoreLoadRoundTrip ==
    (unit.fn = "store_load" /\ unit.done) =>
        /\ unit.out.multi = LoadedBack
        /\ unit.out.single = LoadedBack
        /\ unit.out.multi_stored = LowBits(unit.a, unit.n)
        /\ unit.out.single_stored = LowBits(unit.a, unit.n)

\* lh of 0x8000 stored at the last halfword of the image: both cores return
\* 0xFFFFFFFF_FFFF8000
C25_Witness ==
    /\ unit.fn = "store_load" /\ unit.done
    /\ unit.op = "lh" /\ unit.a = U(32768) /\ unit.b = U(256 + 94)
    /\ unit.out.multi = <<32768, 65535, 65535, 65535>>
    /\ unit.out.single = <<32768, 65535, 65535, 65535>>

\* C26: for every register index i in 0..31 and every value v,
\* RegisterFile::write(i, v) followed by read(i) returns v, and every other
\* register keeps its value
C26_RegWriteRead ==
    (unit.fn = "reg" /\ unit.done) =>
        /\ unit.out.read = unit.a
        /\ \A j \in 0..31 : j # unit.n => unit.out.reg_file[j] = unit_reg_file[j]

\* x0 of the demo file, which held 0, reads back 2^64 - 1, and x31 still
\* holds 31
C26_Witness ==
    /\ unit.fn = "reg" /\ unit.done /\ unit.op = "demo" /\ unit.n = 0
    /\ unit.a = <<65535, 65535, 65535, 65535>>
    /\ unit.out.read = <<65535, 65535, 65535, 65535>>
    /\ unit.out.reg_file[31] = U(31)

\* the instruction in EX of the pipelined core in this clock
InEx == cpu.itl_d_e

\* the frames of the call stack of each core
CallStackOf(c) == c.callstack.call_stack

\* C27: the call stack gets a frame only from a jal whose rd is x1 and whose
\* target is the address of a symbol, and loses one only at the canonical
\* return jalr zero, 0(ra); a jal with another rd leaves it alone, and a
\* return on the empty stack leaves it empty; in both cores
C27_CallStackTracer ==
    [][/\ ClockRan =>
            /\ Len(CallStackOf(cpu')) > Len(CallStackOf(cpu))
                  => /\ InEx.exec_flags.alu_op = "jal" /\ InEx.rd = 1
                     /\ wrapping_add(InEx.pc, InEx.imm) \in DOMAIN cpu.callstack.symbol_map
            /\ Len(CallStackOf(cpu')) < Len(CallStackOf(cpu)) => InEx.raw_inst = RET_INST
            /\ (InEx.exec_flags.alu_op = "jal" /\ InEx.rd # 1)
                  => CallStackOf(cpu') = CallStackOf(cpu)
            /\ (InEx.raw_inst = RET_INST /\ CallStackOf(cpu) = <<>>)
                  => CallStackOf(cpu') = <<>>
       /\ (ExecOnceRan /\ SC_Current.kind = "ok") =>
            /\ Len(CallStackOf(sc_cpu')) > Len(CallStackOf(sc_cpu))
                  => /\ SC_Current.val.inst = "jal" /\ SC_Current.val.rd = 1
                     /\ sc_cpu'.pc \in DOMAIN sc_cpu.callstack.symbol_map
            /\ Len(CallStackOf(sc_cpu')) < Len(CallStackOf(sc_cpu))
                  => SC_Current.val.raw_inst = RET_INST
            /\ (SC_Current.val.inst = "jal" /\ SC_Current.val.rd # 1)
                  => CallStackOf(sc_cpu') = CallStackOf(sc_cpu)
            /\ (SC_Current.val.raw_inst = RET_INST /\ CallStackOf(sc_cpu) = <<>>)
                  => CallStackOf(sc_cpu') = <<>>]_vars

\* the instructions that decode and have no arm in exec_inst of the
\* single-cycle core
NoRuleOps == {"csrrw", "csrrs", "csrrc", "csrrwi", "csrrsi", "csrrci"}

\* the single-cycle core executes, in this step, an instruction without an
\* execution rule
NoRuleStep == ExecOnceRan /\ SC_Current.kind = "ok" /\ SC_Current.val.inst \in NoRuleOps

\* C28: in the single-cycle core an instruction with no execution rule is a
\* noop: registers and memory keep their values, the PC advances by 4, and
\* the run goes on with the next instruction
C28_NoRuleIsNoop ==
    [][NoRuleStep =>
          /\ sc_cpu'.reg_file = sc_cpu.reg_file
          /\ sc_cpu'.vm = sc_cpu.vm
          /\ sc_cpu'.pc = wrapping_add(sc_cpu.pc, U(4))
          /\ sc_frame'.pos = "loop"]_vars

\* ProgCsr has run over its csrrw at 0x104 and halted at the ebreak with the
\* registers the instructions around the csrrw wrote
C28_Witness ==
    /\ info.name = "ProgCsr"
    /\ SC_HaltedClean
    /\ Len(sc_trace) = 5 /\ sc_trace[2] = U(260) /\ sc_trace[3] = U(264)
    /\ reg_read(sc_cpu.reg_file, 5) = U(1)
    /\ reg_read(sc_cpu.reg_file, 6) = Zero64
    /\ reg_read(sc_cpu.reg_file, 7) = U(2)

\* the address fetch went on with behind the control instruction itl: the
\* predicted target when it was predicted taken, the next word otherwise
Followed(itl) ==
    IF itl.branch_flags.predicted_src THEN itl.branch_flags.predicted_target
    ELSE wrapping_add(itl.pc, U(4))

\* a control instruction resolves in EX in this clock and fetch has gone on
\* with an address that is not its next PC
ResolvedOffPath ==
    /\ ClockCompleted
    /\ InEx.branch_flags.branch
    /\ InEx.exec_flags.alu_op \in CondBranchOps \cup {"jal", "jalr"}
    /\ Followed(InEx) # LastClock'.ex.decided_pc

\* C29: whenever a conditional branch, jal or jalr resolves in EX and the
\* address fetch followed behind it is not its actual next PC, the clock
\* flags a misprediction and sets the PC to the actual next PC; also for a
\* jalr that is no return and was predicted with a BTB target left by an
\* earlier execution
C29_OffPathIsMispredict ==
    [][ResolvedOffPath =>
          /\ LastClock'.ex.mispredict
          /\ cpu'.pc = LastClock'.ex.decided_pc]_vars

\* the ebreak has left EX: it is in MEM or in writeback in this clock, and
\* the stages behind it hold the instructions that follow it in the program
BehindEbreak == ClockRan /\ (cpu.itl_e_m.alu_op = "ebreak" \/ cpu.itl_m_w.alu_op = "ebreak")

\* C30: no instruction that follows the halting ebreak in program order has
\* an architectural effect: while the ebreak moves from EX to writeback the
\* clocks write no memory and no register on behalf of its followers, run
\* no call-stack hook, and end in no fault or panic
C30_NothingBehindEbreak ==
    [][/\ BehindEbreak =>
             /\ cpu'.vm = cpu.vm
             /\ cpu'.callstack = cpu.callstack
             /\ frame'.result \notin {"Err", "panic", "ub"}
       /\ (ClockRan /\ cpu.itl_m_w.alu_op = "ebreak") => cpu'.reg_file = cpu.reg_file]_vars

\* the PCs of the instructions that writeback received, in order: after the
\* halt the last trace entry holds the latch that no writeback will see
WritebackPcs ==
    LET seen == SelectSeq(SubSeq(log, 1, Len(log) - 1),
                          LAMBDA e : e.itl_m_w.alu_op # "noop")
    IN  [k \in 1..Len(seen) |-> seen[k].itl_m_w.pc]

\* C31: when both cores run a program to its halting ebreak, the PCs of the
\* non-bubble instructions that arrive at writeback in the pipelined core, up
\* to and including the ebreak, are the PCs the single-cycle core executed,
\* in the same order
C31_WritebackOrder ==
    (SC_HaltedClean /\ CPU_HaltedClean) => WritebackPcs = sc_trace

\* the forwarding unit's decision for the clock that starts in the current
\* state (the hazard unit runs on the latches as the last clock left them)
Forwarding ==
    hazard_unit(cpu.data_hazard_policy, cpu.itl_f_d, cpu.itl_d_e, cpu.itl_e_m,
                cpu.itl_m_w, cpu.d_e_pipeline_states, cpu.f_d_pipeline_states,
                cpu.pc_next_states)

\* the selector the forwarding rules name for source register rs of ID/EX:
\* EX/MEM first, MEM/WB otherwise
Selector(rs) ==
    IF cpu.itl_e_m.wb_flags.mem_to_reg /\ cpu.itl_e_m.rd # 0 /\ cpu.itl_e_m.rd = rs
    THEN 2
    ELSE IF cpu.itl_m_w.wb_flags.mem_to_reg /\ cpu.itl_m_w.rd # 0 /\ cpu.itl_m_w.rd = rs
    THEN 1
    ELSE 0

\* C32: under DataForward each ALU input selector of the instruction in
\* ID/EX is 10 when EX/MEM writes the source register (rd not x0), otherwise
\* 01 when MEM/WB writes it (rd not x0), otherwise 00, and the MEM/WB rule
\* never meets a selector that is already set (the assert_eq never fails)
C32_ForwardSelectors ==
    [][(ClockRan /\ cpu.data_hazard_policy = "DataForward") =>
          /\ Forwarding.kind = "ok"
          /\ Forwarding.itl_d_e.forward_a = Selector(cpu.itl_d_e.rs1)
          /\ Forwarding.itl_d_e.forward_b = Selector(cpu.itl_d_e.rs2)]_vars

\* the selector the code computes for source register rs of ID/EX: the
\* MEM/WB rule also asks that the rd of EX/MEM differs from rs
SelectorExact(rs) ==
    IF cpu.itl_e_m.wb_flags.mem_to_reg /\ cpu.itl_e_m.rd # 0 /\ cpu.itl_e_m.rd = rs
    THEN 2
    ELSE IF /\ cpu.itl_m_w.wb_flags.mem_to_reg /\ cpu.itl_m_w.rd # 0
            /\ cpu.itl_e_m.rd # rs /\ cpu.itl_m_w.rd = rs
    THEN 1
    ELSE 0

\* the operand an ALU input receives under selector sel
Selected(sel, src) ==
    CASE sel = 2 -> cpu.itl_e_m.alu_out
      [] sel = 1 -> cpu.itl_m_w.regval
      [] sel = 0 -> src

\* C32 amended: the MEM/WB rule fires only when, in addition, the rd of
\* EX/MEM differs from the source index (whether or not EX/MEM writes a
\* register); the assert_eq never fails, and each ALU input receives
\* EX/MEM.alu_out under 10, MEM/WB.regval under 01 and the value decode read
\* under 00
C32_ForwardSelectorsExact ==
    [][(ClockRan /\ cpu.data_hazard_policy = "DataForward") =>
          /\ Forwarding.kind = "ok"
          /\ Forwarding.itl_d_e.forward_a = SelectorExact(cpu.itl_d_e.rs1)
          /\ Forwarding.itl_d_e.forward_b = SelectorExact(cpu.itl_d_e.rs2)
          /\ ClockCompleted =>
                /\ LastClock'.ex.src1 =
                      Selected(SelectorExact(cpu.itl_d_e.rs1), cpu.itl_d_e.src1)
                /\ LastClock'.ex.src2 =
                      Selected(SelectorExact(cpu.itl_d_e.rs2), cpu.itl_d_e.src2)]_vars

\* a clock ran with two producers of the same source register in flight
\* (EX/MEM, the younger, was chosen), a clock ran with the producer in MEM/WB
\* only, and a clock ran in which an EX/MEM that writes no register named the
\* source register and kept the MEM/WB value from being forwarded
C32_Witness ==
    /\ cpu.data_hazard_policy = "DataForward"
    /\ \E k \in 1..(Len(log) - 1) :
          /\ log[k].itl_d_e.rs1 # 0
          /\ log[k].itl_e_m.wb_flags.mem_to_reg /\ log[k].itl_e_m.rd = log[k].itl_d_e.rs1
          /\ log[k].itl_m_w.wb_flags.mem_to_reg /\ log[k].itl_m_w.rd = log[k].itl_d_e.rs1
          /\ log[k].itl_e_m.alu_out # log[k].itl_m_w.regval
          /\ log[k + 1].ex.src1 = log[k].itl_e_m.alu_out
    /\ \E k \in 1..(Len(log) - 1) :
          /\ log[k].itl_d_e.rs1 # 0
          /\ log[k].itl_e_m.rd # log[k].itl_d_e.rs1
          /\ log[k].itl_m_w.wb_flags.mem_to_reg /\ log[k].itl_m_w.rd = log[k].itl_d_e.rs1
          /\ log[k].itl_m_w.regval # log[k].itl_d_e.src1
          /\ log[k + 1].ex.src1 = log[k].itl_m_w.regval
    /\ \E k \in 1..(Len(log) - 1) :
          /\ log[k].itl_d_e.rs1 # 0
          /\ ~log[k].itl_e_m.wb_flags.mem_to_reg /\ log[k].itl_e_m.rd = log[k].itl_d_e.rs1
          /\ log[k].itl_m_w.wb_flags.mem_to_reg /\ log[k].itl_m_w.rd = log[k].itl_d_e.rs1
          /\ log[k + 1].ex.src1 = log[k].itl_d_e.src1
          /\ log[k + 1].ex.src1 # log[k].itl_m_w.regval

\* the clock just run committed into ID/EX the instruction that was in IF/ID
DecodedLatched == cpu'.itl_d_e # InternalDecodeExec_default /\ SameInst(cpu'.itl_d_e, cpu.itl_f_d)

\* C33: in a clock in which writeback writes a register r other than x0 and
\* the instruction in IF/ID reads r, the ID/EX latch that decode produces in
\* that clock carries the value just written as its source operand
C33_WriteThrough ==
    [][(/\ ClockCompleted
        /\ cpu.itl_m_w.wb_flags.mem_to_reg
        /\ cpu.itl_m_w.rd # 0
        /\ DecodedLatched) =>
           /\ cpu.itl_f_d.rs1 = cpu.itl_m_w.rd => cpu'.itl_d_e.src1 = cpu.itl_m_w.regval
           /\ cpu.itl_f_d.rs2 = cpu.itl_m_w.rd => cpu'.itl_d_e.src2 = cpu.itl_m_w.regval]_vars

\* a clock changed a register that the instruction decoded in the same clock
\* reads, once as its first source and once as its second
C33_Witness ==
    /\ \E k \in 1..(Len(log) - 1) :
          /\ log[k].itl_m_w.wb_flags.mem_to_reg
          /\ log[k].itl_m_w.rd # 0
          /\ log[k].itl_f_d.rs1 = log[k].itl_m_w.rd
          /\ SameInst(log[k + 1].itl_d_e, log[k].itl_f_d)
          /\ log[k + 1].itl_d_e.src1 = log[k].itl_m_w.regval
          /\ log[k].itl_m_w.regval # Zero64
    /\ \E k \in 1..(Len(log) - 1) :
          /\ log[k].itl_m_w.wb_flags.mem_to_reg
          /\ log[k].itl_m_w.rd # 0
          /\ log[k].itl_f_d.rs2 = log[k].itl_m_w.rd
          /\ SameInst(log[k + 1].itl_d_e, log[k].itl_f_d)
          /\ log[k + 1].itl_d_e.src2 = log[k].itl_m_w.regval
          /\ log[k].itl_m_w.regval # Zero64

MemOps == LoadOps \cup StoreOps

\* the memory accesses of the pipelined core, in the order in which the MEM
\* stage made them: the PC of the instruction, the address, and the value
\* loaded or the bits stored
PipelineAccesses ==
    LET ks == SelectSeq([k \in 1..(Len(log) - 1) |-> k],
                        LAMBDA k : log[k].itl_e_m.alu_op \in MemOps)
    IN  [n \in 1..Len(ks) |->
            [pc |-> log[ks[n]].itl_e_m.pc,
             addr |-> log[ks[n]].itl_e_m.mem_addr,
             val |-> IF log[ks[n]].itl_e_m.alu_op \in LoadOps
                     THEN log[ks[n] + 1].itl_m_w.regval
                     ELSE LowBits(log[ks[n] + 1].itl_m_w.regval,
                                  log[ks[n]].itl_e_m.mem_bitwidth)]]

\* the memory accesses of the program in program order: the instructions are
\* executed one at a time from the image, n of them, starting in state self
RECURSIVE ProgramAccesses(_, _)
ProgramAccesses(self, n) ==
    IF n = 0 THEN <<>>
    ELSE CHOOSE accesses \in
            {LET addr == wrapping_add(reg_read(self.reg_file, d.val.rs1),
                                      sext(d.val.imm, I_TYPE_IMM_BITWIDTH))
             IN  IF d.kind = "ok" /\ d.val.inst \in MemOps
                 THEN <<[pc |-> self.pc, addr |-> addr,
                         val |-> IF d.val.inst \in LoadOps
                                 THEN sc_loaded(self.vm, d.val.inst, addr)
                                 ELSE mread(next.vm, addr, sc_bitwidth(d.val.inst))]>>
                      \o ProgramAccesses(next, n - 1)
                 ELSE ProgramAccesses(next, n - 1) :
                d \in {sc_decode(fetch_inst(self.vm, self.pc))},
                next \in {exec_once(self).cpu}} : TRUE

\* C34: the memory accesses of the pipelined core are those of the program,
\* in program order, at most one per clock (memory changes only in a clock
\* with a store in the MEM stage) and before the fetch of that clock, so that
\* every load returns what the most recent store to its address that
\* precedes it in program order left there
C34_MemoryInProgramOrder ==
    /\ [][ClockRan =>
             /\ cpu'.vm # cpu.vm => cpu.itl_e_m.mem_flags.mem_write
             /\ (ClockCompleted /\ cpu'.itl_f_d.pc = cpu.pc /\ cpu'.itl_f_d # cpu.itl_f_d)
                   => cpu'.itl_f_d.raw_inst = fetch_inst(cpu'.vm, cpu.pc)]_vars
    /\ []((SC_HaltedClean /\ CPU_HaltedClean)
             => PipelineAccesses = ProgramAccesses(SC_new(info), Len(sc_trace)))

\* C35: executed_inst_count grows by one exactly in the clocks in which a
\* non-noop instruction leaves EX, and when the run has halted it is the
\* number of instructions on the program's path up to and including the
\* halting ebreak (the instructions the single-cycle core executed)
C35_ExecutedInstCount ==
    /\ [][ClockCompleted =>
             cpu'.cpu_statistics.executed_inst_count =
                 cpu.cpu_statistics.executed_inst_count
                 + (IF cpu'.itl_e_m.alu_op # "noop" THEN 1 ELSE 0)]_vars
    /\ []((SC_HaltedClean /\ CPU_HaltedClean)
             => cpu.cpu_statistics.executed_inst_count = Len(sc_trace))

\* the RAS after the push of the clock just run: a call (jal with rd = 1) in
\* EX pushes its fall-through address
RasPushed ==
    IF cpu.itl_d_e.exec_flags.alu_op = "jal" /\ cpu.itl_d_e.rd = 1
    THEN Append(cpu.ras, wrapping_add(cpu.itl_d_e.pc, U(4)))
    ELSE cpu.ras

\* the clock just run delivered the instruction it fetched to IF/ID (the
\* fetch was not discarded by a stall and not flushed), and it is a
\* canonical return
ReturnDelivered ==
    /\ cpu'.itl_f_d.pc = cpu.pc
    /\ cpu'.itl_f_d # cpu.itl_f_d
    /\ cpu'.itl_f_d.raw_inst = RET_INST

\* C36: under DynamicPredict the RAS changes in a clock by the push of the
\* fall-through address of the call that executes in it, once, and by the
\* pop of one entry when the clock delivers a canonical return; a fetch that
\* is discarded by a stall or flushed by a misprediction leaves it alone
C36_RasPushPop ==
    [][(ClockCompleted /\ cpu.control_policy = "DynamicPredict") =>
          cpu'.ras = IF ReturnDelivered /\ Len(RasPushed) > 0
                     THEN SubSeq(RasPushed, 1, Len(RasPushed) - 1)
                     ELSE RasPushed]_vars

\* the number of clocks run so far in which the PC was held by a data-hazard
\* stall
HeldClocks == Cardinality({k \in 2..Len(log) : log[k].ex.pc_stall})


\* C37: whenever no PC stall is still queued, data_hazard_delayed_cycles is
\* the number of clocks in which a data-hazard stall held the PC (2 for one
\* RAW hazard between adjacent instructions under NaiveStall, 1 for one
\* load-use hazard under DataForward)
C37_DelayedCycles ==
    (\A i \in DOMAIN cpu.pc_next_states : cpu.pc_next_states[i] # "Stall")
        => cpu.cpu_statistics.data_hazard_delayed_cycles = HeldClocks


\* s can be read in t from left to right, skipping elements of t
RECURSIVE IsSubsequence(_, _)
IsSubsequence(s, t) ==
    IF s = <<>> THEN TRUE
    ELSE IF t = <<>> THEN FALSE
    ELSE IF Head(s) = Head(t) THEN IsSubsequence(Tail(s), Tail(t))
    ELSE IsSubsequence(s, Tail(t))


\* the five queues of pipeline states of a core
StateQueues(self) ==
    <<self.m_w_pipeline_states, self.e_m_pipeline_states, self.d_e_pipeline_states,
      self.f_d_pipeline_states, self.pc_next_states>>

\* the clock just run detected a hazard: a data hazard or a misprediction
HazardDetected ==
    \/ cpu'.cpu_statistics.data_hazard_count # cpu.cpu_statistics.data_hazard_count
    \/ cpu'.cpu_statistics.control_hazard_count # cpu.cpu_statistics.control_hazard_count

\* a clock moves every queued request one place to the front and queues
\* Normal behind it; only a hazard detected in the clock queues a new request
RequestsExpire ==
    \A n \in 1..5 :
        /\ StateQueues(cpu')[n][PIPELINE_STATES_DEPTH] = "Normal"
        /\ \A i \in 1..(PIPELINE_STATES_DEPTH - 1) :
              StateQueues(cpu')[n][i] # "Normal"
                  => (StateQueues(cpu)[n][i + 1] # "Normal" \/ HazardDetected)


\* the PC was held in at most 2 clocks in a row
HeldAtMostTwice ==
    \A k \in 2..(Len(log) - 2) :
        ~(log[k].ex.pc_stall /\ log[k + 1].ex.pc_stall /\ log[k + 2].ex.pc_stall)

\* between clocks no request is queued behind the head of a queue, and the
\* PC queue holds no Bubble
RequestsShort ==
    /\ \A n \in 1..5 : \A i \in 2..PIPELINE_STATES_DEPTH :
          StateQueues(cpu)[n][i] = "Normal"
    /\ \A i \in 1..PIPELINE_STATES_DEPTH : cpu.pc_next_states[i] # "Bubble"

\* the clocks an instruction needs from IF/ID to MEM/WB: 3 stages behind it
\* and at most 2 clocks of a stall
WritebackWithin == 5

\* every instruction that a clock delivered to IF/ID is in MEM/WB at most
\* WritebackWithin clocks later, unless a misprediction was detected in
\* between or the run ended
DeliveredReachWriteback ==
    \A k \in 2..(Len(log) - WritebackWithin) :
        (/\ log[k].itl_f_d # log[k - 1].itl_f_d
         /\ log[k].itl_f_d # InternalFetchDecode_default
         /\ \A j \in (k + 1)..(k + WritebackWithin) : ~log[j].ex.mispredict)
            => \E j \in (k + 1)..(k + WritebackWithin) :
                  SameInst(log[j].itl_m_w, log[k].itl_f_d)

\* C38: the PC is held in at most 2 consecutive clocks; a queued Stall or
\* Bubble is consumed by the next clock and only a newly detected hazard
\* queues another; the PC state is never Bubble and next-PC selection never
\* reaches its unreachable!(); every instruction delivered to IF/ID and not
\* flushed reaches writeback within 5 clocks, and in a run that halts without
\* a fault every instruction of the program's path has reached writeback, in
\* program order
C38_BoundedStalls ==
    /\ [](HeldAtMostTwice /\ RequestsShort /\ frame.err # "unreachable")
    /\ [][ClockRan => RequestsExpire]_vars
    /\ [](DeliveredReachWriteback)
    /\ []((SC_HaltedClean /\ CPU_HaltedClean) => IsSubsequence(sc_trace, WritebackPcs))

\* a stall held the PC in 2 consecutive clocks and the run went on to its
\* halt with every instruction of the path written back
C38_Witness ==
    /\ SC_HaltedClean /\ CPU_HaltedClean
    /\ IsSubsequence(sc_trace, WritebackPcs)
    /\ \E k \in 2..(Len(log) - 1) : log[k].ex.pc_stall /\ log[k + 1].ex.pc_stall
    /\ \E k \in 2..Len(log) : log[k].ex.mispredict


\* an instruction in flight writes a register other than x0 that the
\* instruction in IF/ID or in ID/EX reads
NonZeroDependency ==
    \E r \in {cpu.itl_d_e.rd, cpu.itl_e_m.rd, cpu.itl_m_w.rd} \ {0} :
        r \in {cpu.itl_f_d.rs1, cpu.itl_f_d.rs2, cpu.itl_d_e.rs1, cpu.itl_d_e.rs2}


\* C39: an instruction in EX whose source register is x0 receives 0 for that
\* operand, whatever EX/MEM and MEM/WB hold; no forward is selected for
\* register 0; and a clock that holds the PC without a stall queued by an
\* earlier clock found an instruction in flight that writes a register other
\* than x0 which a younger instruction reads
C39_ZeroRegister ==
    [][ClockCompleted =>
          /\ cpu.itl_d_e.rs1 = 0 => LastClock'.ex.src1 = Zero64
          /\ cpu.itl_d_e.rs2 = 0 => LastClock'.ex.src2 = Zero64
          /\ (Forwarding.kind = "ok" /\ Forwarding.itl_d_e.forward_a # 0)
                => cpu.itl_d_e.rs1 # 0
          /\ (Forwarding.kind = "ok" /\ Forwarding.itl_d_e.forward_b # 0)
                => cpu.itl_d_e.rs2 # 0
          /\ (LastClock'.ex.pc_stall /\ cpu.pc_next_states[1] # "Stall")
                => NonZeroDependency]_vars


\* C40: under DataForward a load that is directly followed by a store of the
\* loaded register is not separated from it: two clocks after the load was
\* in ID/EX and the store in IF/ID, the load is in MEM/WB and the store
\* directly behind it in EX/MEM, where the memory-to-memory forward hands it
\* MEM/WB.regval
C40_MemToMemForward ==
    \A k \in 2..(Len(log) - 2) :
        (/\ cpu.data_hazard_policy = "DataForward"
         /\ log[k].itl_d_e.mem_flags.mem_read /\ log[k].itl_d_e.rd # 0
         /\ log[k].itl_f_d.mem_flags.mem_write
         /\ log[k].itl_f_d.rs2 = log[k].itl_d_e.rd
         /\ ~log[k + 1].ex.mispredict /\ ~log[k + 2].ex.mispredict)
            => /\ SameInst(log[k + 2].itl_m_w, log[k].itl_d_e)
               /\ SameInst(log[k + 2].itl_e_m, log[k].itl_f_d)
               /\ forward_m2m_hit(log[k + 2].itl_m_w, log[k + 2].itl_e_m)

====
